---- MODULE Spec2Model ----
(***************************************************************************)
(* Model of the rating / batching / recommendation core of src/app.js      *)
(* (the `app` object of the Oscar Best Picture Recommender).               *)
(*                                                                         *)
(* State: the fields of `app` that the core reads and writes, the          *)
(* persisted 'oscarRatings' / 'useExtendedDataset' values of localStorage, *)
(* and the contents of the recommendations grid.  Every user-reachable     *)
(* handler is one action.  Math.random() and the note / tag inputs of the  *)
(* DOM are inputs drawn from small sets.                                   *)
(*                                                                         *)
(* Conventions: a film id (qid) is an integer; an absent year or runtime   *)
(* is 0 (both are only ever tested for truthiness or compared as numbers,  *)
(* and 0 is falsy in JavaScript just as undefined is), and so is an absent *)
(* or empty imdbId; arrays are sequences; recentlyShownQIDs, a JavaScript  *)
(* Set, is a duplicate-free sequence in insertion order.                   *)
(***************************************************************************)
EXTENDS Integers, Sequences, FiniteSets, TLC

VARIABLES
    films,              \* app.films
    allFilms,           \* app.allFilms
    ratings,            \* app.ratings: qid -> judgment record
    currentBatch,       \* app.currentBatch
    batchNumber,        \* app.batchNumber
    batchHistory,       \* app.batchHistory
    currentBatchIndex,  \* app.currentBatchIndex (0-based, -1 when empty)
    recentlyShownQIDs,  \* app.recentlyShownQIDs
    yearFilter,         \* app.yearFilter
    runtimeFilter,      \* app.runtimeFilter
    storedRatings,      \* localStorage 'oscarRatings': [present, value]
    useExtended,        \* localStorage 'useExtendedDataset' === 'true'
    recGrid,            \* the cards of #recommendations-grid: <<[film, score]>>
    ratingHidden,       \* #rating-section carries class 'hidden'
    recsVisible,        \* #recommendations-section does not carry class 'hidden'
    myRatings,          \* the qids listed, with a remove button, in #my-ratings-list
    pc,                 \* "boot" before init() has run, "loading" while it awaits
                        \* the catalog, "ready" after, "halted" when it has thrown
    inFlight,           \* the catalog loads that await their fetch, oldest first
    clock,              \* the wall clock read by new Date()
    writeFailures,      \* failed localStorage writes so far
    last                \* the handler that ran last, its inputs and its outcome

vars == <<films, allFilms, ratings, currentBatch, batchNumber, batchHistory,
          currentBatchIndex, recentlyShownQIDs, yearFilter, runtimeFilter,
          storedRatings, useExtended, recGrid, ratingHidden, recsVisible,
          myRatings, pc, inFlight, clock, writeFailures, last>>

catalogVars == <<films, allFilms>>
batchVars   == <<currentBatch, batchNumber, batchHistory, currentBatchIndex,
                 recentlyShownQIDs, ratingHidden>>
filterVars  == <<yearFilter, runtimeFilter>>
storeVars   == <<storedRatings, writeFailures>>

----------------------------------------------------------------------------
(* Bounds of the exploration                                               *)

MaxHistory == 2         \* batchHistory is followed up to this many batches
MaxBatchNumber == 2     \* batchNumber is followed up to this value
MaxWriteFailures == 1   \* at most this many localStorage writes fail
MaxJudged == 1          \* the sampler is followed with this many judgments made card by card
MaxWalked == 3          \* batchNumber is followed up to this value where the history is walked
MaxLiked == 2           \* an earlier session has left at most this many likes
MaxClock == 1           \* the clock is followed up to this value
MaxInFlight == 2        \* at most this many catalog loads await their fetch at once
MaxDrawn == 9           \* batchNumber is followed up to this value after a long session

----------------------------------------------------------------------------
(* Sequence helpers                                                        *)

Range(s) == { s[i] : i \in 1..Len(s) }

\* Array.prototype.slice(0, n)
Take(s, n) == SubSeq(s, 1, IF n < Len(s) THEN n ELSE Len(s))

\* Array.prototype.slice(-n)
LastN(s, n) == SubSeq(s, IF Len(s) > n THEN Len(s) - n + 1 ELSE 1, Len(s))

Min(a, b) == IF a < b THEN a ELSE b
Max(a, b) == IF a > b THEN a ELSE b
Abs(a)    == IF a < 0 THEN -a ELSE a

Swap(s, i, j) == [s EXCEPT ![i] = s[j], ![j] = s[i]]

----------------------------------------------------------------------------
(* The environment: the dataset files the page can fetch, the clock        *)

\* new Date().getFullYear()
CurrentYear == 2000 + 26

Genres == <<"drama", "comedy", "thriller", "war">>

\* Titles that match an entry of famousFilmTitles (app.js:407-424) under the
\* two-way, case-insensitive `includes` test of getStarterBatch (app.js:427-432)
FamousTitles == {"Jaws", "Alien", "Titanic", "Avatar", "Inception", "Gladiator",
                 "Frozen", "Coco", "Dune", "Barbie"}

TitleOf(q) ==
    CASE q = 4  -> "Jaws"      [] q = 5  -> "Alien"    [] q = 6  -> "Titanic"
      [] q = 7  -> "Avatar"    [] q = 8  -> "Inception" [] q = 9  -> "Gladiator"
      [] q = 10 -> "Frozen"    [] q = 11 -> "Coco"     [] q = 12 -> "Dune"
      [] q = 13 -> "Barbie"    [] OTHER  -> "Film"

\* One raw record of a dataset file.  Optional fields vary from film to film:
\* some have no genres, no cast, no year or no runtime; films 10 and 20 have
\* no genres, no cast and no year; film 15 is more than a century older than
\* the recent ones.
RawFilm(q) ==
    [ qid          |-> q,
      title        |-> TitleOf(q),
      year         |-> IF q % 7 = 0 \/ q % 10 = 0 THEN 0
                       ELSE IF q % 15 = 0 THEN 1900
                       ELSE IF q % 2 = 0 THEN 2026 - q ELSE 1950 + 3 * q,
      genres       |-> IF q % 5 = 0 THEN <<>>
                       ELSE IF q % 3 = 0 THEN <<Genres[(q % 4) + 1]>>
                       ELSE <<Genres[(q % 4) + 1], Genres[((q + 1) % 4) + 1]>>,
      directorQIDs |-> IF q % 4 = 0 THEN <<>> ELSE <<100 + (q % 3)>>,
      castQIDs     |-> IF q % 5 = 0 THEN <<>>
                       ELSE <<200 + (q % 4), 200 + (q % 5)>>,
      runtime      |-> IF q % 6 = 0 THEN 0 ELSE 80 + 5 * q,
      imdbId       |-> IF q % 8 = 0 THEN 0 ELSE 1000 + q,
      source       |-> IF q % 3 = 0 THEN "oscars"
                       ELSE IF q % 3 = 1 THEN "popular" ELSE "seed" ]

\* A record that differs from film `of` in its id only
Remake(q, of) == [RawFilm(of) EXCEPT !.qid = q, !.title = TitleOf(q)]

\* core-films.json, extended-films.json and seed-films.json: data.films.
\* The last film of the extended file is a remake of film 2.
CoreFile     == [ q \in 1..3 |-> RawFilm(q) ]
ExtendedFile == [ q \in 1..22 |-> IF q = 22 THEN Remake(q, 2) ELSE RawFilm(q) ]
SeedFile     == [ q \in 1..2 |-> RawFilm(q) ]

\* A raw record that omits some of its fields
Omit(raw, fields) == [ k \in DOMAIN raw \ fields |-> raw[k] ]

\* A dataset file whose records omit optional arrays (film 2) and ids: film 3
\* has an imdbId and no qid, films 8 and 16 have neither (a qid or an imdbId
\* that is absent is 0)
SparseFile ==
    << RawFilm(1),
       Omit(RawFilm(2), {"genres", "directorQIDs", "castQIDs"}),
       [RawFilm(3) EXCEPT !.qid = 0],
       [RawFilm(8) EXCEPT !.qid = 0, !.imdbId = 0],
       [RawFilm(16) EXCEPT !.qid = 0, !.imdbId = 0] >>

\* A seed-films.json whose second and third records omit optional arrays
SparseSeedFile ==
    << RawFilm(1),
       Omit(RawFilm(2), {"directorQIDs"}),
       Omit(RawFilm(3), {"genres", "directorQIDs", "castQIDs"}) >>

\* The ids of the dataset files, and an id that none of them contains
KnownQids == { ExtendedFile[i].qid : i \in 1..Len(ExtendedFile) }
MissingQid == Len(ExtendedFile) + 1

----------------------------------------------------------------------------
(* Program constants                                                       *)

MinBatchSize == 15        \* Math.floor(Math.random() * 6) + 15
BatchSizeSpread == 6      \* Math.floor(Math.random() * 6) + 15
ResetThreshold == 20      \* candidates.length < 20 && unrated.length >= 20
MaxRecentlyShown == 100   \* this.recentlyShownQIDs.size > 100
KeepRecentlyShown == 50   \* qidsArray.slice(-50)
StarterMinimum == 10      \* starterFilms.length >= 10
TopN == 20                \* .slice(0, 20)

\* Math.random() takes a value r/6 with r drawn from RandomDraws; one draw
\* serves every call of one loop
RandomDraws == {0, 5}

\* Math.floor(Math.random() * n)
FloorRandomTimes(r, n) == (r * n) \div 6

----------------------------------------------------------------------------
(* Catalog loading                                                         *)

\* film.genres || [], and new Set(film.genres): an array that is absent
\* counts as an empty one
OrEmpty(film, field) == IF field \in DOMAIN film THEN film[field] ELSE <<>>

\* `seed-${film.imdbId}`: an id apart from every qid, the same for every
\* record that has no imdbId
DerivedQid(imdbId) == 5000 + imdbId

\* loadAllSeedFiles: the `processed` record of one raw film
ProcessFilm(raw) ==
    [ qid          |-> IF raw.qid # 0 THEN raw.qid ELSE DerivedQid(raw.imdbId),
      title        |-> raw.title,
      year         |-> raw.year,
      genres       |-> OrEmpty(raw, "genres"),
      directorQIDs |-> OrEmpty(raw, "directorQIDs"),
      castQIDs     |-> OrEmpty(raw, "castQIDs"),
      runtime      |-> raw.runtime,
      imdbId       |-> raw.imdbId,
      source       |-> IF raw.source = "" THEN "seed" ELSE raw.source ]

\* loadAllSeedFiles: the local array allFilms after the try / catch, for the
\* outcome of the two fetches: "ok" (the dataset file loads), "fallback" (it
\* fails and seed-films.json loads), "fail" (both fail); "sparse" and
\* "sparseFallback" are "ok" and "fallback" with a file that omits fields
LoadedFilms(extended, outcome) ==
    CASE outcome = "ok"       -> LET file == IF extended THEN ExtendedFile ELSE CoreFile
                                 IN  [ i \in 1..Len(file) |-> ProcessFilm(file[i]) ]
      [] outcome = "sparse"   -> [ i \in 1..Len(SparseFile) |-> ProcessFilm(SparseFile[i]) ]
      [] outcome = "fallback" -> SeedFile
      [] outcome = "sparseFallback" -> SparseSeedFile
      [] OTHER                -> <<>>

FetchOutcomes == {"ok", "fallback", "fail"}

\* applyFilters: the value it leaves in this.films
applyFilters(all) == all

----------------------------------------------------------------------------
(* Rating store                                                            *)

Verdicts == {"like", "dislike", "neutral"}

\* !this.ratings[qid]: every stored judgment is an object, hence truthy
HasRating(rs, q) == q \in DOMAIN rs

\* A filter that takes only a like for a judgment
UnratedUnlessLiked(fs, rs) ==
    SelectSeq(fs, LAMBDA f : ~(HasRating(rs, f.qid) /\ rs[f.qid].rating = "like"))

\* this.films.filter(f => !this.ratings[f.qid])
Unrated(fs, rs) == SelectSeq(fs, LAMBDA f : ~HasRating(rs, f.qid))

\* A liked list that takes a neutral verdict for a like
LikedFilmsOrNeutral(fs, rs) ==
    SelectSeq(fs, LAMBDA f : HasRating(rs, f.qid) /\ rs[f.qid].rating \in {"like", "neutral"})

\* this.films.filter(f => this.ratings[f.qid]?.rating === 'like')
LikedFilms(fs, rs) ==
    SelectSeq(fs, LAMBDA f : HasRating(rs, f.qid) /\ rs[f.qid].rating = "like")

\* this.ratings[qid] = {...} on a copy of the map
PutRating(rs, q, rec) ==
    [ k \in DOMAIN rs \cup {q} |-> IF k = q THEN rec ELSE rs[k] ]

\* A delete under a key the map does not hold, which removes nothing
DeleteRatingWrongKey(rs, q) == rs

\* delete this.ratings[qid]
DeleteRating(rs, q) == [ k \in DOMAIN rs \ {q} |-> rs[k] ]

EmptyRatings == [ k \in {} |-> 0 ]

----------------------------------------------------------------------------
(* Batch sampling                                                          *)

\* getStarterBatch: sourceScore[film.source] ?? 5
SourceScore(src) ==
    CASE src = "oscars" -> 0 [] src = "afi-classics" -> 1 [] src = "popular" -> 2
      [] src = "recent" -> 3 [] src = "bechdel" -> 4 [] OTHER -> 5

\* getStarterBatch: the comparator of the fallback sort
StarterCompare(a, b) ==
    IF SourceScore(a.source) # SourceScore(b.source)
    THEN SourceScore(a.source) - SourceScore(b.source)
    ELSE IF a.year < 1980 /\ b.year >= 1980 THEN -1
    ELSE IF a.year >= 1980 /\ b.year < 1980 THEN 1
    ELSE b.year - a.year

RECURSIVE StarterInsert(_, _)
StarterInsert(sorted, x) ==
    IF sorted = <<>> THEN <<x>>
    ELSE IF StarterCompare(x, Head(sorted)) < 0 THEN <<x>> \o sorted
    ELSE <<Head(sorted)>> \o StarterInsert(Tail(sorted), x)

RECURSIVE StarterSort(_)
\* unrated.sort(comparator): a stable sort
StarterSort(s) ==
    IF s = <<>> THEN <<>>
    ELSE StarterInsert(StarterSort(SubSeq(s, 1, Len(s) - 1)), s[Len(s)])

getStarterBatch(unrated) ==
    LET starterFilms == SelectSeq(unrated, LAMBDA f : f.title \in FamousTitles)
    IN  IF Len(starterFilms) >= StarterMinimum THEN starterFilms
        ELSE StarterSort(unrated)

RECURSIVE ShuffleFrom(_, _, _)
\* shuffleArray: the loop from 0-based index i - 1 down to 1
ShuffleFrom(s, i, r) ==
    IF i <= 1 THEN s
    ELSE ShuffleFrom(Swap(s, i, FloorRandomTimes(r, i) + 1), i - 1, r)

shuffleArray(array, r) == ShuffleFrom(array, Len(array), r)

\* loadNewBatch: the candidate list, and whether recentlyShownQIDs is cleared
\* on the way
ResetsRecentlyShown(unrated, recent, number) ==
    /\ number # 0
    /\ Len(SelectSeq(unrated, LAMBDA f : f.qid \notin Range(recent))) < ResetThreshold
    /\ Len(unrated) >= ResetThreshold

\* The candidate list without the last resort of loadNewBatch (app.js:496-499)
CandidatesWithoutLastResort(unrated, recent, number) ==
    IF number = 0 THEN getStarterBatch(unrated)
    ELSE LET fresh == SelectSeq(unrated, LAMBDA f : f.qid \notin Range(recent))
         IN  IF Len(fresh) < ResetThreshold /\ Len(unrated) >= ResetThreshold
             THEN unrated
             ELSE fresh

\* The candidate list without the recently-shown filter
CandidatesUnfiltered(unrated, recent, number) ==
    IF number = 0 THEN getStarterBatch(unrated) ELSE unrated

Candidates(unrated, recent, number) ==
    IF number = 0 THEN getStarterBatch(unrated)
    ELSE LET fresh == SelectSeq(unrated, LAMBDA f : f.qid \notin Range(recent))
         IN  IF Len(fresh) < ResetThreshold /\ Len(unrated) >= ResetThreshold
             THEN unrated
             ELSE IF Len(fresh) = 0 THEN unrated
             ELSE fresh

\* A batch size drawn from 16..21
BatchSizeOneMore(r, candidates) ==
    Min(FloorRandomTimes(r, BatchSizeSpread) + MinBatchSize + 1, Len(candidates))

\* Math.min(Math.floor(Math.random() * 6) + 15, candidates.length)
BatchSize(r, candidates) ==
    Min(FloorRandomTimes(r, BatchSizeSpread) + MinBatchSize, Len(candidates))

\* this.shuffleArray(candidates).slice(0, batchSize)
SampleBatch(candidates, rSize, rShuffle) ==
    Take(shuffleArray(candidates, rShuffle), BatchSize(rSize, candidates))

RECURSIVE AddAll(_, _)
\* batch.forEach(film => set.add(film.qid)) on an insertion-ordered Set
AddAll(recent, batch) ==
    IF batch = <<>> THEN recent
    ELSE AddAll(IF Head(batch).qid \in Range(recent) THEN recent
                ELSE Append(recent, Head(batch).qid),
                Tail(batch))

\* A cap that keeps the ids added first
CapRecentlyShownOldest(recent) ==
    IF Len(recent) > MaxRecentlyShown THEN Take(recent, KeepRecentlyShown)
    ELSE recent

\* loadNewBatch: the size cap on recentlyShownQIDs
CapRecentlyShown(recent) ==
    IF Len(recent) > MaxRecentlyShown THEN LastN(recent, KeepRecentlyShown)
    ELSE recent

\* A push that keeps the forward batches
PushHistoryKeepingForward(history, index, batch) == Append(history, batch)

\* loadNewBatch: the history with any forward batches dropped and the new one
\* pushed
PushHistory(history, index, batch) ==
    Append(IF index < Len(history) - 1 THEN SubSeq(history, 1, index + 1)
           ELSE history,
           batch)

----------------------------------------------------------------------------
(* Similarity and recommendations                                          *)
(*                                                                         *)
(* Scores are exact integers: a raw pair score x of the code is            *)
(* ScoreScale * x here.  Every union of two genre or cast sets of the      *)
(* catalog has 1..6 elements, so every division below is exact.            *)

ScoreScale == 60 * 100

\* The share of the first set that the second one covers
jaccardSimilarityOfFirst(setA, setB) ==
    IF setA = {} THEN 0
    ELSE (ScoreScale * Cardinality(setA \cap setB)) \div Cardinality(setA)

\* The Dice coefficient in the place of the Jaccard index
jaccardSimilarityDice(setA, setB) ==
    IF setA = {} /\ setB = {} THEN 0
    ELSE (ScoreScale * 2 * Cardinality(setA \cap setB))
             \div (Cardinality(setA) + Cardinality(setB))

\* jaccardSimilarity, times ScoreScale
jaccardSimilarity(setA, setB) ==
    IF setA = {} /\ setB = {} THEN 0
    ELSE (ScoreScale * Cardinality(setA \cap setB)) \div Cardinality(setA \cup setB)

\* A year term that is not cut off at 0
PairScoreUnclamped(film, liked) ==
    LET genreOverlap  == jaccardSimilarity(Range(film.genres), Range(liked.genres))
        directorMatch == IF \E d \in Range(film.directorQIDs) :
                                d \in Range(liked.directorQIDs)
                         THEN ScoreScale ELSE 0
        castOverlap   == jaccardSimilarity(Range(film.castQIDs), Range(liked.castQIDs))
        yearDiff      == Abs(film.year - liked.year)
        decadeProximity ==
            IF film.year # 0 /\ liked.year # 0
            THEN ScoreScale - (ScoreScale \div 100) * yearDiff
            ELSE 0
    IN  genreOverlap * 5 + directorMatch * 3 + castOverlap * 2 + decadeProximity

\* calculateSimilarity: film.directorQIDs.some(d => liked.directorQIDs
\* .includes(d)) throws a TypeError when film has no directorQIDs, and when
\* film has a director and liked has no directorQIDs
SimilarityThrows(film, liked) ==
    \/ "directorQIDs" \notin DOMAIN film
    \/ film.directorQIDs # <<>> /\ "directorQIDs" \notin DOMAIN liked

\* calculateSimilarity: the score of one liked film, times ScoreScale
PairScore(film, liked) ==
    LET genreOverlap  == jaccardSimilarity(Range(OrEmpty(film, "genres")),
                                           Range(OrEmpty(liked, "genres")))
        directorMatch == IF \E d \in Range(film.directorQIDs) :
                                d \in Range(liked.directorQIDs)
                         THEN ScoreScale ELSE 0
        castOverlap   == jaccardSimilarity(Range(OrEmpty(film, "castQIDs")),
                                           Range(OrEmpty(liked, "castQIDs")))
        yearDiff      == Abs(film.year - liked.year)
        decadeProximity ==
            IF film.year # 0 /\ liked.year # 0
            THEN Max(0, ScoreScale - (ScoreScale \div 100) * yearDiff)
            ELSE 0
    IN  genreOverlap * 5 + directorMatch * 3 + castOverlap * 2 + decadeProximity

RECURSIVE SeqMax(_)
SeqMax(s) == IF Len(s) = 1 THEN s[1] ELSE Max(s[1], SeqMax(Tail(s)))

RECURSIVE SeqSum(_)
SeqSum(s) == IF s = <<>> THEN 0 ELSE s[1] + SeqSum(Tail(s))

\* The plain average of the scores, on the same scale
calculateSimilarityAverage(film, likedFilms) ==
    IF Len(likedFilms) = 0 THEN 0
    ELSE LET scores == [ i \in 1..Len(likedFilms) |-> PairScore(film, likedFilms[i]) ]
         IN  SeqSum(scores) * 10

\* calculateSimilarity: (maxScore * 0.7 + avgScore * 0.3) / 11.0, times
\* 110 * ScoreScale * likedFilms.length (the same factor for every candidate
\* of one call, so the order of the scores is the order of the code's)
calculateSimilarity(film, likedFilms) ==
    IF Len(likedFilms) = 0 THEN 0
    ELSE LET scores == [ i \in 1..Len(likedFilms) |-> PairScore(film, likedFilms[i]) ]
         IN  SeqMax(scores) * 7 * Len(likedFilms) + SeqSum(scores) * 3

\* generateRecommendations: the year and runtime filters on one unrated film
PassesYearFilter(f, yf) ==
    CASE yf = "last20" -> f.year # 0 /\ f.year >= CurrentYear - 20
      [] yf = "last2"  -> f.year # 0 /\ f.year >= CurrentYear - 2
      [] OTHER         -> TRUE

PassesRuntimeFilter(f, rf) ==
    CASE rf = "short"  -> f.runtime # 0 /\ f.runtime < 90
      [] rf = "medium" -> f.runtime # 0 /\ f.runtime >= 90 /\ f.runtime <= 150
      [] rf = "long"   -> f.runtime # 0 /\ f.runtime > 150
      [] OTHER         -> TRUE

RECURSIVE ScoreInsertBeforeEqual(_, _)
\* An insertion that puts a later film before the earlier ones of equal score
ScoreInsertBeforeEqual(sorted, x) ==
    IF sorted = <<>> THEN <<x>>
    ELSE IF Head(sorted).score - x.score <= 0 THEN <<x>> \o sorted
    ELSE <<Head(sorted)>> \o ScoreInsertBeforeEqual(Tail(sorted), x)

RECURSIVE ScoreInsert(_, _)
ScoreInsert(sorted, x) ==
    IF sorted = <<>> THEN <<x>>
    ELSE IF Head(sorted).score - x.score < 0 THEN <<x>> \o sorted
    ELSE <<Head(sorted)>> \o ScoreInsert(Tail(sorted), x)

RECURSIVE ScoreSort(_)
\* scoredFilms.sort((a, b) => b.score - a.score): a stable sort
ScoreSort(s) ==
    IF s = <<>> THEN <<>>
    ELSE ScoreInsert(ScoreSort(SubSeq(s, 1, Len(s) - 1)), s[Len(s)])

\* Candidates that must have a genre, a cast member or a year
RecommendationCandidatesWithFeatures(fs, rs, yf, rf) ==
    SelectSeq(Unrated(fs, rs),
              LAMBDA f : /\ PassesYearFilter(f, yf) /\ PassesRuntimeFilter(f, rf)
                         /\ (f.genres # <<>> \/ f.castQIDs # <<>> \/ f.year # 0))

\* generateRecommendations: the films that get a score
RecommendationCandidates(fs, rs, yf, rf) ==
    SelectSeq(Unrated(fs, rs),
              LAMBDA f : PassesYearFilter(f, yf) /\ PassesRuntimeFilter(f, rf))

\* generateRecommendations without its early return for an empty liked list
generateRecommendationsUnguarded(fs, rs, yf, rf) ==
    LET likedFilms   == LikedFilms(fs, rs)
        unratedFilms == RecommendationCandidates(fs, rs, yf, rf)
        scoredFilms  == [ i \in 1..Len(unratedFilms) |->
                            [ film  |-> unratedFilms[i],
                              score |-> calculateSimilarity(unratedFilms[i],
                                                            likedFilms) ] ]
    IN  Take(ScoreSort(scoredFilms), TopN)

\* A cut to the first 20 candidates that comes before the sort
generateRecommendationsCutFirst(fs, rs, yf, rf) ==
    LET likedFilms == LikedFilms(fs, rs)
    IN  IF Len(likedFilms) = 0 THEN <<>>
        ELSE LET unratedFilms == RecommendationCandidates(fs, rs, yf, rf)
                 scoredFilms  == [ i \in 1..Len(unratedFilms) |->
                                     [ film  |-> unratedFilms[i],
                                       score |-> calculateSimilarity(unratedFilms[i],
                                                                     likedFilms) ] ]
             IN  ScoreSort(Take(scoredFilms, TopN))

\* generateRecommendations ends in the TypeError of some calculateSimilarity
generateRecommendationsThrows(fs, rs, yf, rf) ==
    LET likedFilms   == LikedFilms(fs, rs)
        unratedFilms == RecommendationCandidates(fs, rs, yf, rf)
    IN  \E i \in 1..Len(unratedFilms), j \in 1..Len(likedFilms) :
            SimilarityThrows(unratedFilms[i], likedFilms[j])

generateRecommendations(fs, rs, yf, rf) ==
    LET likedFilms == LikedFilms(fs, rs)
    IN  IF Len(likedFilms) = 0 THEN <<>>
        ELSE LET unratedFilms == RecommendationCandidates(fs, rs, yf, rf)
                 scoredFilms  == [ i \in 1..Len(unratedFilms) |->
                                     [ film  |-> unratedFilms[i],
                                       score |-> calculateSimilarity(unratedFilms[i],
                                                                     likedFilms) ] ]
             IN  Take(ScoreSort(scoredFilms), TopN)

----------------------------------------------------------------------------
(* loadNewBatch, showRecommendations and saveRatings as functions of the   *)
(* state they read: several handlers call them                             *)

\* The batch fields of `app` as one record
BatchState ==
    [ currentBatch      |-> currentBatch,
      batchNumber       |-> batchNumber,
      batchHistory      |-> batchHistory,
      currentBatchIndex |-> currentBatchIndex,
      recentlyShownQIDs |-> recentlyShownQIDs,
      ratingHidden      |-> ratingHidden ]

\* An exhaustion that also empties the rating grid's batch
ExhaustedStateClearing(b) == [b EXCEPT !.ratingHidden = TRUE, !.currentBatch = <<>>]

\* loadNewBatch when no film is unrated: the status message and the hidden
\* rating section, then return
ExhaustedState(b) == [b EXCEPT !.ratingHidden = TRUE]

\* loadNewBatch when some film is unrated
SampledState(unrated, b, r) ==
    LET candidates == Candidates(unrated, b.recentlyShownQIDs, b.batchNumber)
        kept       == IF ResetsRecentlyShown(unrated, b.recentlyShownQIDs, b.batchNumber)
                      THEN <<>> ELSE b.recentlyShownQIDs
        batch      == SampleBatch(candidates, r, r)
        history    == PushHistory(b.batchHistory, b.currentBatchIndex, batch)
    IN  [ currentBatch      |-> batch,
          batchNumber       |-> b.batchNumber + 1,
          batchHistory      |-> history,
          currentBatchIndex |-> Len(history) - 1,
          recentlyShownQIDs |-> CapRecentlyShown(AddAll(kept, batch)),
          ratingHidden      |-> FALSE ]

\* loadNewBatch on films fs, ratings rs and batch fields b, with random draw r
loadNewBatch(fs, rs, b, r) ==
    LET unrated == Unrated(fs, rs)
    IN  IF Len(unrated) = 0
        THEN [ outcome |-> "exhausted", b |-> ExhaustedState(b) ]
        ELSE [ outcome |-> "sampled",   b |-> SampledState(unrated, b, r) ]

SetBatch(b) ==
    /\ currentBatch' = b.currentBatch
    /\ batchNumber' = b.batchNumber
    /\ batchHistory' = b.batchHistory
    /\ currentBatchIndex' = b.currentBatchIndex
    /\ recentlyShownQIDs' = b.recentlyShownQIDs
    /\ ratingHidden' = b.ratingHidden

\* Object.values(this.ratings).filter(r => r.rating === 'like').length
LikedCount(rs) == Cardinality({ q \in DOMAIN rs : rs[q].rating = "like" })

\* showRecommendations: the grid and the section's visibility it leaves.  With
\* no recommendation and some like it only alerts, and the grid keeps its cards.
\* An exception of generateRecommendations leaves both as they were.
showRecommendations(fs, rs, yf, rf, grid, visible) ==
    IF generateRecommendationsThrows(fs, rs, yf, rf)
    THEN [ grid |-> grid, visible |-> visible ]
    ELSE LET recommendations == generateRecommendations(fs, rs, yf, rf)
         IN  IF Len(recommendations) = 0
             THEN [ grid    |-> IF LikedCount(rs) = 0 THEN <<>> ELSE grid,
                    visible |-> visible ]
             ELSE [ grid |-> recommendations, visible |-> TRUE ]

\* refreshRecommendationsQuietly: the grid it leaves (a message, and no card,
\* when there is no recommendation; the cards it had when
\* generateRecommendations throws)
refreshRecommendationsQuietly(fs, rs, yf, rf, grid) ==
    IF generateRecommendationsThrows(fs, rs, yf, rf) THEN grid
    ELSE generateRecommendations(fs, rs, yf, rf)

\* showMyRatings: the rated films that allFilms holds
showMyRatings(all, rs) ==
    { q \in DOMAIN rs : \E i \in 1..Len(all) : all[i].qid = q }

RECURSIVE RatingValues(_)
\* Object.values(this.ratings): the judgments in the order of their keys (the
\* model has no insertion order; its integer keys come in ascending order)
RatingValues(rs) ==
    IF DOMAIN rs = {} THEN <<>>
    ELSE LET q == CHOOSE k \in DOMAIN rs : \A j \in DOMAIN rs : k <= j
         IN  <<rs[q]>> \o RatingValues(DeleteRating(rs, q))

\* buildExportData: the list that takes a judgment with verdict v
ExportGroup(v) == IF v = "like" THEN "like" ELSE IF v = "dislike" THEN "dislike"
                  ELSE "neutral"

\* A neutral list that takes the verdict 'neutral' only
ExportEntriesNeutralOnly(fs, rs, group) ==
    LET rated   == SelectSeq(RatingValues(rs),
                             LAMBDA r : /\ \E i \in 1..Len(fs) : fs[i].qid = r.qid
                                        /\ r.rating = group)
        film(r) == fs[CHOOSE i \in 1..Len(fs) :
                         /\ fs[i].qid = r.qid
                         /\ \A j \in 1..(i - 1) : fs[j].qid # r.qid]
    IN  [ k \in 1..Len(rated) |->
            [ title  |-> film(rated[k]).title,
              year   |-> film(rated[k]).year,
              imdbId |-> film(rated[k]).imdbId,
              rating |-> rated[k].rating,
              note   |-> rated[k].note,
              tags   |-> IF "tags" \in DOMAIN rated[k] THEN rated[k].tags ELSE <<>> ] ]

\* buildExportData: the filmData entries of one list, for the judgments whose
\* film this.films holds
ExportEntries(fs, rs, group) ==
    LET rated   == SelectSeq(RatingValues(rs),
                             LAMBDA r : /\ \E i \in 1..Len(fs) : fs[i].qid = r.qid
                                        /\ ExportGroup(r.rating) = group)
        film(r) == fs[CHOOSE i \in 1..Len(fs) :
                         /\ fs[i].qid = r.qid
                         /\ \A j \in 1..(i - 1) : fs[j].qid # r.qid]
    IN  [ k \in 1..Len(rated) |->
            [ title  |-> film(rated[k]).title,
              year   |-> film(rated[k]).year,
              imdbId |-> film(rated[k]).imdbId,
              rating |-> rated[k].rating,
              note   |-> rated[k].note,
              tags   |-> IF "tags" \in DOMAIN rated[k] THEN rated[k].tags ELSE <<>> ] ]

\* buildExportData.  Of metadata.task the record keeps what varies with the
\* ratings: the titles of the liked films it lists.
buildExportData(fs, rs, extended, now) ==
    LET likedFilms    == ExportEntries(fs, rs, "like")
        dislikedFilms == ExportEntries(fs, rs, "dislike")
        neutralFilms  == ExportEntries(fs, rs, "neutral")
    IN  [ metadata   |-> [ task            |-> [ k \in 1..Len(likedFilms) |->
                                                   likedFilms[k].title ],
                           exportDate      |-> now,
                           dataset         |-> IF extended THEN "extended" ELSE "core",
                           totalFilmsRated |-> Cardinality(DOMAIN rs),
                           dataQuality     |-> IF Len(likedFilms) = 0 THEN "low"
                                               ELSE "improving" ],
          statistics |-> [ totalRated |-> Len(likedFilms) + Len(dislikedFilms)
                                              + Len(neutralFilms),
                           liked      |-> Len(likedFilms),
                           disliked   |-> Len(dislikedFilms),
                           neutral    |-> Len(neutralFilms) ],
          ratings    |-> likedFilms \o dislikedFilms \o neutralFilms ]

\* saveRatings: localStorage.setItem either stores the map or throws, and the
\* throw is caught
SavedValue(rs, stored, ok) == IF ok THEN [ present |-> TRUE, value |-> rs ] ELSE stored

SaveTag(ok) == IF ok THEN "ok" ELSE "failed"

saveRatings(rs, ok) ==
    /\ storedRatings' = SavedValue(rs, storedRatings, ok)
    /\ writeFailures' = IF ok THEN writeFailures ELSE writeFailures + 1

\* The record of the handler that ran last: its name, the film id and the
\* input it was given, whether it drew a batch, and what became of its write
Ran(op, qid, arg, batch, saved) ==
    [ op |-> op, qid |-> qid, arg |-> arg, batch |-> batch, saved |-> saved ]

----------------------------------------------------------------------------
(* Inputs                                                                  *)

\* The note field and the checked tag boxes of a card, as rateFilm reads them
NoteTagInputs == { [ note |-> "",      tags |-> <<>> ],
                   [ note |-> "great", tags |-> <<"emotional">> ] }

YearFilters == {"all", "last20", "last2"}
RuntimeFilters == {"all", "short", "medium", "long"}

NoStore == [ present |-> FALSE, value |-> EmptyRatings ]

\* What an earlier session may have left in localStorage 'oscarRatings'
InitialStores ==
    { NoStore,
      [ present |-> TRUE,
        value   |-> [ q \in {MissingQid} |->
                        [ qid |-> q, rating |-> "like", note |-> "", tags |-> <<>>,
                          timestamp |-> 0 ] ] ] }

\* The files a user may pick for import, as FileReader and the parser deliver
\* them: `parses` (JSON.parse / parseYAML returns), `hasRatings` (data.ratings
\* is an array), `entries` (data.ratings).  NullEntry is a null array element.
NullEntry == [ null |-> TRUE ]

ImportEntry(q, v, n) == [ qid |-> q, rating |-> v, note |-> n ]

ImportFiles ==
    { [ name |-> "unparsable", parses |-> FALSE, hasRatings |-> FALSE, entries |-> <<>> ],
      [ name |-> "noRatings",  parses |-> TRUE,  hasRatings |-> FALSE, entries |-> <<>> ],
      [ name |-> "two",        parses |-> TRUE,  hasRatings |-> TRUE,
        entries |-> << ImportEntry(3, "like", "imported"),
                       [ qid |-> MissingQid, rating |-> "dislike", note |-> "",
                         timestamp |-> 0 ] >> ],
      [ name |-> "nullEntry",  parses |-> TRUE,  hasRatings |-> TRUE,
        entries |-> << ImportEntry(2, "dislike", ""), NullEntry >> ],
      [ name |-> "allCore",    parses |-> TRUE,  hasRatings |-> TRUE,
        entries |-> [ q \in 1..Len(CoreFile) |-> ImportEntry(q, "dislike", "") ] ] }

\* The films an earlier session may have liked, and what it then left in
\* localStorage 'oscarRatings'
LikedBefore == {1, 2, 9, 15}

LikedStore(qids) ==
    [ present |-> TRUE,
      value   |-> [ q \in qids |->
                      [ qid |-> q, rating |-> "like", note |-> "", tags |-> <<>>,
                        timestamp |-> 0 ] ] ]

LikedStores ==
    { LikedStore(qids) : qids \in { s \in SUBSET LikedBefore : Cardinality(s) <= MaxLiked } }

----------------------------------------------------------------------------
(* Initial state: the `app` object as constructed, before init()           *)

Init ==
    /\ films = <<>>
    /\ allFilms = <<>>
    /\ ratings = EmptyRatings
    /\ currentBatch = <<>>
    /\ batchNumber = 0
    /\ batchHistory = <<>>
    /\ currentBatchIndex = -1
    /\ recentlyShownQIDs = <<>>
    /\ yearFilter = "all"
    /\ runtimeFilter = "all"
    /\ storedRatings \in InitialStores
    /\ useExtended \in BOOLEAN
    /\ recGrid = <<>>
    /\ ratingHidden = TRUE
    /\ recsVisible = FALSE
    /\ myRatings = {}
    /\ pc = "boot"
    /\ inFlight = <<>>
    /\ clock = 0
    /\ writeFailures = 0
    /\ last = Ran("none", 0, <<>>, "none", "none")

----------------------------------------------------------------------------
(* Handlers                                                                *)

\* loadRatings
loadRatings(stored) == IF stored.present THEN stored.value ELSE EmptyRatings

\* init() from the end of its fetches: the assignments of loadAllSeedFiles,
\* loadNewBatch, showRecommendations, showMyRatings.  Nothing catches an
\* exception of showRecommendations: the statements after it do not run, and
\* the loading indicator stays.
InitCatalog(rs, extended, outcome, r) ==
    LET all   == LoadedFilms(extended, outcome)
        fs    == applyFilters(all)
        res   == loadNewBatch(fs, rs, BatchState, r)
        recs  == showRecommendations(fs, rs, yearFilter, runtimeFilter,
                                     recGrid, recsVisible)
        threw == generateRecommendationsThrows(fs, rs, yearFilter, runtimeFilter)
    IN  /\ allFilms' = all
        /\ films' = fs
        /\ SetBatch(res.b)
        /\ recGrid' = recs.grid
        /\ recsVisible' = recs.visible
        /\ myRatings' = IF threw THEN myRatings ELSE showMyRatings(all, rs)
        /\ pc' = IF threw THEN "halted" ELSE "ready"
        /\ last' = Ran("init", 0, outcome, res.outcome, "none")

\* init(), run to completion: loadRatings, loadAllSeedFiles, loadNewBatch,
\* showRecommendations, showMyRatings.  The controls stay hidden until it has
\* finished.  No filter is stored, so loadFilters leaves yearFilter and
\* runtimeFilter at 'all'.
init(outcome, r) ==
    /\ pc = "boot"
    /\ ratings' = loadRatings(storedRatings)
    /\ InitCatalog(ratings', useExtended, outcome, r)
    /\ UNCHANGED <<filterVars, storeVars, useExtended, clock, inFlight>>

\* init() up to the first await of loadAllSeedFiles, which has read the
\* dataset flag
initStart ==
    /\ pc = "boot"
    /\ ratings' = loadRatings(storedRatings)
    /\ pc' = "loading"
    /\ inFlight' = <<[ op |-> "init", extended |-> useExtended ]>>
    /\ last' = Ran("initStart", 0, <<>>, "none", "none")
    /\ UNCHANGED <<catalogVars, batchVars, filterVars, storeVars, useExtended,
                   recGrid, recsVisible, myRatings, clock>>

\* The cards with rating buttons that a click can reach: those of the rating
\* grid and of the recommendations grid, while their sections are shown
RateableQids ==
    (IF ratingHidden THEN {} ELSE { currentBatch[i].qid : i \in 1..Len(currentBatch) })
    \cup
    (IF ~recsVisible THEN {} ELSE { recGrid[i].film.qid : i \in 1..Len(recGrid) })

\* rateFilm keeping the earlier note and tags where the new ones are empty
RatedStoreMerging(rs, qid, rating, note, tags, now) ==
    PutRating(rs, qid,
              [ qid  |-> qid, rating |-> rating,
                note |-> IF note = "" /\ HasRating(rs, qid) THEN rs[qid].note ELSE note,
                tags |-> IF tags = <<>> /\ HasRating(rs, qid) /\ "tags" \in DOMAIN rs[qid]
                         THEN rs[qid].tags ELSE tags,
                timestamp |-> now ])

\* rateFilm leaving the timestamp of a judgment that is already there
RatedStoreFirstTimestamp(rs, qid, rating, note, tags, now) ==
    PutRating(rs, qid, [ qid |-> qid, rating |-> rating, note |-> note,
                         tags |-> tags,
                         timestamp |-> IF HasRating(rs, qid) THEN rs[qid].timestamp
                                       ELSE now ])

\* rateFilm: the rating map after this.ratings[qid] = {...}
RatedStore(rs, qid, rating, note, tags, now) ==
    PutRating(rs, qid, [ qid |-> qid, rating |-> rating, note |-> note,
                         tags |-> tags, timestamp |-> now ])

\* rateFilm with a saveRatings that lets the storage exception through: the
\* assignment has happened, the rest of the handler does not run
rateFilmUncaught(qid, rating, input, ok) ==
    /\ pc = "ready"
    /\ qid \in RateableQids
    /\ ratings' = PutRating(ratings, qid,
                            [ qid |-> qid, rating |-> rating, note |-> input.note,
                              tags |-> input.tags, timestamp |-> clock ])
    /\ IF ok
       THEN /\ storedRatings' = [ present |-> TRUE, value |-> ratings' ]
            /\ writeFailures' = writeFailures
            /\ myRatings' = showMyRatings(allFilms, ratings')
            /\ recGrid' = refreshRecommendationsQuietly(films, ratings', yearFilter,
                                                        runtimeFilter, recGrid)
       ELSE /\ writeFailures' = writeFailures + 1
            /\ UNCHANGED <<storedRatings, myRatings, recGrid>>
    /\ last' = Ran("rateFilm", qid,
                   [ rating |-> rating, note |-> input.note, tags |-> input.tags,
                     had |-> HasRating(ratings, qid) ],
                   "none", SaveTag(ok))
    /\ UNCHANGED <<catalogVars, batchVars, filterVars, useExtended, recsVisible,
                   pc, clock, inFlight>>

rateFilm(qid, rating, input, ok) ==
    /\ pc = "ready"
    /\ qid \in RateableQids
    /\ ratings' = RatedStore(ratings, qid, rating, input.note, input.tags, clock)
    /\ saveRatings(ratings', ok)
    /\ myRatings' = showMyRatings(allFilms, ratings')
    /\ recGrid' = refreshRecommendationsQuietly(films, ratings', yearFilter, runtimeFilter,
                                                recGrid)
    /\ last' = Ran("rateFilm", qid,
                   [ rating |-> rating, note |-> input.note, tags |-> input.tags,
                     had |-> HasRating(ratings, qid) ],
                   "none", SaveTag(ok))
    /\ UNCHANGED <<catalogVars, batchVars, filterVars, useExtended, recsVisible,
                   pc, clock, inFlight>>

\* removeRating, from a remove button of the My Ratings list
removeRating(qid, confirmed, ok) ==
    /\ pc = "ready"
    /\ qid \in myRatings
    /\ IF confirmed
       THEN /\ ratings' = DeleteRating(ratings, qid)
            /\ saveRatings(ratings', ok)
            /\ myRatings' = showMyRatings(allFilms, ratings')
            /\ last' = Ran("removeRating", qid,
                           [ confirmed |-> TRUE, had |-> HasRating(ratings, qid),
                             justRated |-> last.op = "rateFilm" /\ last.qid = qid ],
                           "none", SaveTag(ok))
       ELSE /\ ok
            /\ last' = Ran("removeRating", qid,
                           [ confirmed |-> FALSE, had |-> HasRating(ratings, qid),
                             justRated |-> last.op = "rateFilm" /\ last.qid = qid ],
                           "none", "none")
            /\ UNCHANGED <<ratings, storeVars, myRatings>>
    /\ UNCHANGED <<catalogVars, batchVars, filterVars, useExtended, recGrid,
                   recsVisible, pc, clock,
                   inFlight>>

\* clearAllRatings
clearAllRatings(confirmed, ok, r) ==
    /\ pc = "ready"
    /\ IF confirmed
       THEN LET res == loadNewBatch(films, EmptyRatings,
                                    [BatchState EXCEPT !.batchNumber = 0], r)
            IN  /\ ratings' = EmptyRatings
                /\ saveRatings(ratings', ok)
                /\ SetBatch(res.b)
                /\ last' = Ran("clearAllRatings", 0, confirmed, res.outcome, SaveTag(ok))
       ELSE /\ ok
            /\ last' = Ran("clearAllRatings", 0, confirmed, "none", "none")
            /\ UNCHANGED <<ratings, storeVars, batchVars>>
    /\ UNCHANGED <<catalogVars, filterVars, useExtended, recGrid, recsVisible,
                   myRatings, pc, clock,
                   inFlight>>

RECURSIVE ImportEntries(_, _, _)
\* importData: data.ratings.forEach(rating => this.ratings[rating.qid] = {...}).
\* Reading rating.qid of a null element throws a TypeError, which ends the loop
\* with the entries before it already stored.  The rating.qid of an entry that
\* has none is undefined, and every such entry lands under the one key
\* 'undefined' (an absent qid is 0).
ImportEntries(rs, entries, now) ==
    IF entries = <<>> THEN [ rs |-> rs, threw |-> FALSE ]
    ELSE LET e   == Head(entries)
             qid == IF "qid" \in DOMAIN e THEN e.qid ELSE 0
         IN  IF "null" \in DOMAIN e THEN [ rs |-> rs, threw |-> TRUE ]
             ELSE ImportEntries(
                      PutRating(rs, qid,
                                [ qid       |-> qid,
                                  rating    |-> e.rating,
                                  note      |-> e.note,
                                  timestamp |-> IF "timestamp" \in DOMAIN e
                                                THEN e.timestamp ELSE now ]),
                      Tail(entries), now)

\* An importData that starts from an empty map
importDataReplacing(file, ok) ==
    /\ pc = "ready"
    /\ IF ~file.parses \/ ~file.hasRatings
       THEN /\ ok
            /\ last' = Ran("importData", 0, file.name, "none", "none")
            /\ UNCHANGED <<ratings, storeVars>>
       ELSE LET imported == ImportEntries(EmptyRatings, file.entries, clock)
            IN  /\ ratings' = imported.rs
                /\ IF imported.threw
                   THEN /\ ok
                        /\ last' = Ran("importData", 0, file.name, "none", "threw")
                        /\ UNCHANGED storeVars
                   ELSE /\ saveRatings(ratings', ok)
                        /\ last' = Ran("importData", 0, file.name, "none", SaveTag(ok))
    /\ UNCHANGED <<catalogVars, batchVars, filterVars, useExtended, recGrid,
                   recsVisible, myRatings, pc, clock,
                   inFlight>>

\* importData: the body of reader.onload
importData(file, ok) ==
    /\ pc = "ready"
    /\ IF ~file.parses \/ ~file.hasRatings
       THEN /\ ok
            /\ last' = Ran("importData", 0, file.name, "none", "none")
            /\ UNCHANGED <<ratings, storeVars>>
       ELSE LET imported == ImportEntries(ratings, file.entries, clock)
            IN  /\ ratings' = imported.rs
                /\ IF imported.threw
                   THEN /\ ok
                        /\ last' = Ran("importData", 0, file.name, "none", "threw")
                        /\ UNCHANGED storeVars
                   ELSE /\ saveRatings(ratings', ok)
                        /\ last' = Ran("importData", 0, file.name, "none", SaveTag(ok))
    /\ UNCHANGED <<catalogVars, batchVars, filterVars, useExtended, recGrid,
                   recsVisible, myRatings, pc, clock,
                   inFlight>>

\* The "Load New Batch" button
LoadNewBatch(r) ==
    /\ pc = "ready"
    /\ LET res == loadNewBatch(films, ratings, BatchState, r)
       IN  /\ SetBatch(res.b)
           /\ last' = Ran("loadNewBatch", 0, <<>>, res.outcome, "none")
    /\ UNCHANGED <<catalogVars, ratings, filterVars, storeVars, useExtended,
                   recGrid, recsVisible, myRatings, pc, clock,
                   inFlight>>

\* What the rating grid shows when a navigation button is pressed
Shown == [ index |-> currentBatchIndex, batch |-> currentBatch ]

\* A previousBatch that also drops the batches after the one it moves to
previousBatchTruncating ==
    /\ pc = "ready"
    /\ IF currentBatchIndex > 0
       THEN /\ currentBatchIndex' = currentBatchIndex - 1
            /\ currentBatch' = batchHistory[currentBatchIndex' + 1]
            /\ batchHistory' = SubSeq(batchHistory, 1, currentBatchIndex' + 1)
       ELSE UNCHANGED <<currentBatchIndex, currentBatch, batchHistory>>
    /\ last' = Ran("previousBatch", 0, Shown, "none", "none")
    /\ UNCHANGED <<catalogVars, ratings, batchNumber,
                   recentlyShownQIDs, ratingHidden, filterVars, storeVars,
                   useExtended, recGrid, recsVisible, myRatings, pc, clock,
                   inFlight>>

previousBatch ==
    /\ pc = "ready"
    /\ IF currentBatchIndex > 0
       THEN /\ currentBatchIndex' = currentBatchIndex - 1
            /\ currentBatch' = batchHistory[currentBatchIndex' + 1]
       ELSE UNCHANGED <<currentBatchIndex, currentBatch>>
    /\ last' = Ran("previousBatch", 0, Shown, "none", "none")
    /\ UNCHANGED <<catalogVars, ratings, batchNumber, batchHistory,
                   recentlyShownQIDs, ratingHidden, filterVars, storeVars,
                   useExtended, recGrid, recsVisible, myRatings, pc, clock,
                   inFlight>>

nextBatch(r) ==
    /\ pc = "ready"
    /\ IF currentBatchIndex < Len(batchHistory) - 1
       THEN /\ currentBatchIndex' = currentBatchIndex + 1
            /\ currentBatch' = batchHistory[currentBatchIndex' + 1]
            /\ last' = Ran("nextBatch", 0, <<>>, "none", "none")
            /\ UNCHANGED <<batchNumber, batchHistory, recentlyShownQIDs, ratingHidden>>
       ELSE LET res == loadNewBatch(films, ratings, BatchState, r)
            IN  /\ SetBatch(res.b)
                /\ last' = Ran("nextBatch", 0, <<>>, res.outcome, "none")
    /\ UNCHANGED <<catalogVars, ratings, filterVars, storeVars, useExtended,
                   recGrid, recsVisible, myRatings, pc, clock,
                   inFlight>>

\* refreshRecommendationsIfVisible
refreshRecommendationsIfVisible(yf, rf) ==
    IF recsVisible
    THEN LET recs == showRecommendations(films, ratings, yf, rf, recGrid, recsVisible)
         IN  /\ recGrid' = recs.grid
             /\ recsVisible' = recs.visible
    ELSE UNCHANGED <<recGrid, recsVisible>>

\* setYearFilter over a generateRecommendations that filters and sorts
\* this.films itself, not copies of it
setYearFilterSortingCatalog(filter) ==
    /\ pc = "ready"
    /\ yearFilter' = filter
    /\ refreshRecommendationsIfVisible(filter, runtimeFilter)
    /\ films' = IF recsVisible /\ Len(LikedFilms(films, ratings)) > 0
                THEN LET sorted == ScoreSort(
                             [ i \in 1..Len(films) |->
                                 [ film  |-> films[i],
                                   score |-> calculateSimilarity(
                                                 films[i], LikedFilms(films, ratings)) ] ])
                     IN  [ k \in 1..Len(sorted) |-> sorted[k].film ]
                ELSE films
    /\ last' = Ran("setYearFilter", 0, filter, "none", "none")
    /\ UNCHANGED <<allFilms, ratings, batchVars, runtimeFilter, storeVars,
                   useExtended, myRatings, pc, clock,
                   inFlight>>

setYearFilter(filter) ==
    /\ pc = "ready"
    /\ yearFilter' = filter
    /\ refreshRecommendationsIfVisible(filter, runtimeFilter)
    /\ last' = Ran("setYearFilter", 0, filter, "none", "none")
    /\ UNCHANGED <<catalogVars, ratings, batchVars, runtimeFilter, storeVars,
                   useExtended, myRatings, pc, clock,
                   inFlight>>

setRuntimeFilter(filter) ==
    /\ pc = "ready"
    /\ runtimeFilter' = filter
    /\ refreshRecommendationsIfVisible(yearFilter, filter)
    /\ last' = Ran("setRuntimeFilter", 0, filter, "none", "none")
    /\ UNCHANGED <<catalogVars, ratings, batchVars, yearFilter, storeVars,
                   useExtended, myRatings, pc, clock,
                   inFlight>>

\* refreshSeedFiles, run to completion: loadAllSeedFiles, loadNewBatch,
\* showRecommendations, with the dataset flag as given
ReloadCatalog(op, extended, outcome, r) ==
    LET all  == LoadedFilms(extended, outcome)
        fs   == applyFilters(all)
        res  == loadNewBatch(fs, ratings, BatchState, r)
        recs == showRecommendations(fs, ratings, yearFilter, runtimeFilter,
                                    recGrid, recsVisible)
    IN  /\ allFilms' = all
        /\ films' = fs
        /\ SetBatch(res.b)
        /\ recGrid' = recs.grid
        /\ recsVisible' = recs.visible
        /\ last' = Ran(op, 0, outcome, res.outcome, "none")

refreshSeedFiles(outcome, r) ==
    /\ pc = "ready"
    /\ ReloadCatalog("refreshSeedFiles", useExtended, outcome, r)
    /\ UNCHANGED <<ratings, filterVars, storeVars, useExtended, myRatings, pc, clock,
                   inFlight>>

\* toggleDataset: flips the persisted flag, then refreshSeedFiles
toggleDataset(outcome, r) ==
    /\ pc = "ready"
    /\ useExtended' = ~useExtended
    /\ ReloadCatalog("toggleDataset", useExtended', outcome, r)
    /\ UNCHANGED <<ratings, filterVars, storeVars, myRatings, pc, clock,
                   inFlight>>

\* A loadAllSeedFiles that empties this.allFilms before its fetch and fills it
\* once the response is there
refreshSeedFilesStartClearing ==
    /\ pc = "ready"
    /\ allFilms' = <<>>
    /\ inFlight' = Append(inFlight, [ op |-> "refreshSeedFiles", extended |-> useExtended ])
    /\ last' = Ran("refreshSeedFilesStart", 0, <<>>, "none", "none")
    /\ UNCHANGED <<films, ratings, batchVars, filterVars, storeVars,
                   useExtended, recGrid, recsVisible, myRatings, pc, clock>>

\* refreshSeedFiles up to the first await of loadAllSeedFiles, which has read
\* the dataset flag
refreshSeedFilesStart ==
    /\ pc = "ready"
    /\ inFlight' = Append(inFlight, [ op |-> "refreshSeedFiles", extended |-> useExtended ])
    /\ last' = Ran("refreshSeedFilesStart", 0, <<>>, "none", "none")
    /\ UNCHANGED <<catalogVars, ratings, batchVars, filterVars, storeVars,
                   useExtended, recGrid, recsVisible, myRatings, pc, clock>>

\* toggleDataset up to the same await
toggleDatasetStart ==
    /\ pc = "ready"
    /\ useExtended' = ~useExtended
    /\ inFlight' = Append(inFlight, [ op |-> "toggleDataset", extended |-> useExtended' ])
    /\ last' = Ran("toggleDatasetStart", 0, <<>>, "none", "none")
    /\ UNCHANGED <<catalogVars, ratings, batchVars, filterVars, storeVars,
                   recGrid, recsVisible, myRatings, pc, clock>>

\* The fetches of the i-th load in flight end: loadAllSeedFiles assigns the
\* catalog, and the handler that awaited it runs to its end.  Each completion
\* is delivered as a task of its own, and the handler's continuation is a
\* microtask of that task, so that no other handler runs in between.
loadAllSeedFilesDone(i, outcome, r) ==
    /\ i \in 1..Len(inFlight)
    /\ LET load == inFlight[i]
       IN  IF load.op = "init"
           THEN /\ InitCatalog(ratings, load.extended, outcome, r)
                /\ UNCHANGED ratings
           ELSE /\ ReloadCatalog(load.op, load.extended, outcome, r)
                /\ UNCHANGED <<ratings, myRatings, pc>>
    /\ inFlight' = SubSeq(inFlight, 1, i - 1) \o SubSeq(inFlight, i + 1, Len(inFlight))
    /\ UNCHANGED <<filterVars, storeVars, useExtended, clock>>

\* exportData: builds the export and hands it to the download; `app` and
\* localStorage stay as they are
exportData ==
    /\ pc = "ready"
    /\ last' = Ran("exportData", 0,
                   buildExportData(films, ratings, useExtended, clock).statistics,
                   "none", "none")
    /\ UNCHANGED <<catalogVars, ratings, batchVars, filterVars, storeVars,
                   useExtended, recGrid, recsVisible, myRatings, pc, clock,
                   inFlight>>

\* Time passes
Tick ==
    /\ clock' = clock + 1
    /\ UNCHANGED <<catalogVars, ratings, batchVars, filterVars, storeVars,
                   useExtended, recGrid, recsVisible, myRatings, pc, inFlight,
                   last>>

----------------------------------------------------------------------------
(* Explorations.  Each lets every handler it lists run as the code runs it *)
(* and limits only the inputs it draws and how far the counters go.        *)

\* The first card of the rating grid
FirstCard ==
    IF ratingHidden \/ currentBatch = <<>> THEN {} ELSE {currentBatch[1].qid}

\* The first entry of the My Ratings list
FirstListed == { q \in myRatings : \A p \in myRatings : q <= p }

WriteOutcomes == IF writeFailures < MaxWriteFailures THEN {TRUE, FALSE} ELSE {TRUE}

BatchBounded ==
    /\ batchNumber' <= MaxBatchNumber
    /\ Len(batchHistory') <= MaxHistory

\* The judgment store: every way the rating map and its persisted copy change,
\* on the core catalog
InitJudgments == Init /\ ~useExtended

JudgmentFiles == { file \in ImportFiles : file.name # "allCore" }

NextJudgments ==
    \/ \E outcome \in {"ok"}, r \in {5} : init(outcome, r)
    \/ \E qid \in FirstCard, rating \in Verdicts, input \in NoteTagInputs,
          ok \in WriteOutcomes : rateFilm(qid, rating, input, ok)
    \/ \E qid \in FirstListed, confirmed \in BOOLEAN, ok \in WriteOutcomes :
          removeRating(qid, confirmed, ok)
    \/ \E confirmed \in BOOLEAN, ok \in WriteOutcomes, r \in {5} :
          clearAllRatings(confirmed, ok, r) /\ BatchBounded
    \/ \E file \in JudgmentFiles, ok \in WriteOutcomes : importData(file, ok)

SpecJudgments == InitJudgments /\ [][NextJudgments]_vars

\* The first card of the recommendations grid
FirstRecommendation ==
    IF ~recsVisible \/ recGrid = <<>> THEN {} ELSE {recGrid[1].film.qid}

RoomToJudge(qid) == HasRating(ratings, qid) \/ Cardinality(DOMAIN ratings) < MaxJudged

BatchFiles == { file \in ImportFiles : file.name = "allCore" }

\* The sampler: every way a batch is drawn, on every catalog the loader can
\* deliver, with judgments made on the first card of either grid.  The history
\* is walked back once no film is left to judge, where nextBatch then meets
\* the exhausted catalog at the end of the history.
NextBatches ==
    \/ \E outcome \in FetchOutcomes, r \in RandomDraws : init(outcome, r)
    \/ \E r \in RandomDraws : LoadNewBatch(r) /\ BatchBounded
    \/ \E r \in RandomDraws : nextBatch(r) /\ BatchBounded
    \/ Len(Unrated(films, ratings)) = 0 /\ previousBatch
    \/ \E qid \in FirstCard \cup FirstRecommendation, rating \in Verdicts,
          input \in {[ note |-> "", tags |-> <<>> ]} :
          RoomToJudge(qid) /\ rateFilm(qid, rating, input, TRUE)
    \/ \E file \in BatchFiles : importData(file, TRUE)
    \/ \E r \in RandomDraws : clearAllRatings(TRUE, TRUE, r) /\ BatchBounded

SpecBatches == Init /\ [][NextBatches]_vars

\* The batch history: batches drawn and the history walked back and forth, in
\* any order, on every catalog the loader can deliver
WalkBounded == batchNumber' <= MaxWalked

NextHistory ==
    \/ \E outcome \in FetchOutcomes, r \in RandomDraws : init(outcome, r)
    \/ \E r \in RandomDraws : LoadNewBatch(r) /\ WalkBounded
    \/ \E r \in RandomDraws : nextBatch(r) /\ WalkBounded
    \/ previousBatch

SpecHistory == Init /\ [][NextHistory]_vars

\* Scoring: the recommendations for the likes of an earlier session, computed
\* by init on the dataset as loaded and again on every change of a filter
InitScoring ==
    /\ films = <<>>
    /\ allFilms = <<>>
    /\ ratings = EmptyRatings
    /\ currentBatch = <<>>
    /\ batchNumber = 0
    /\ batchHistory = <<>>
    /\ currentBatchIndex = -1
    /\ recentlyShownQIDs = <<>>
    /\ yearFilter = "all"
    /\ runtimeFilter = "all"
    /\ storedRatings \in LikedStores
    /\ useExtended \in BOOLEAN
    /\ recGrid = <<>>
    /\ ratingHidden = TRUE
    /\ recsVisible = FALSE
    /\ myRatings = {}
    /\ pc = "boot"
    /\ inFlight = <<>>
    /\ clock = 0
    /\ writeFailures = 0
    /\ last = Ran("none", 0, <<>>, "none", "none")

NextScoring ==
    \/ \E r \in RandomDraws : init("ok", r)
    \/ \E filter \in YearFilters : setYearFilter(filter)
    \/ \E filter \in RuntimeFilters : setRuntimeFilter(filter)

SpecScoring == InitScoring /\ [][NextScoring]_vars

\* Judging again: the first card of either grid judged over and over while
\* time passes
NextRejudge ==
    \/ \E r \in RandomDraws : init("ok", r)
    \/ \E qid \in FirstCard \cup FirstRecommendation, rating \in Verdicts,
          input \in NoteTagInputs, ok \in WriteOutcomes :
          RoomToJudge(qid) /\ rateFilm(qid, rating, input, ok)
    \/ clock < MaxClock /\ Tick

SpecRejudge == Init /\ [][NextRejudge]_vars

\* Judgments without a film: a like kept from an earlier session and an
\* imported dislike on an id that no dataset has, and judgments on films that
\* a switch of dataset or a failed reload takes out of the catalog
OrphanFiles == { file \in ImportFiles : file.name = "two" }

NextOrphans ==
    \/ \E outcome \in FetchOutcomes : init(outcome, 5)
    \/ \E outcome \in FetchOutcomes : refreshSeedFiles(outcome, 5) /\ BatchBounded
    \/ \E outcome \in FetchOutcomes : toggleDataset(outcome, 5) /\ BatchBounded
    \/ \E qid \in FirstCard, rating \in Verdicts,
          input \in {[ note |-> "", tags |-> <<>> ]} :
          RoomToJudge(qid) /\ rateFilm(qid, rating, input, TRUE)
    \/ \E file \in OrphanFiles : importData(file, TRUE)
    \/ exportData

SpecOrphans == Init /\ [][NextOrphans]_vars

\* The loader: catalog loads that are started, stay in flight while other
\* handlers run, and end in any order with any outcome, on files any of whose
\* records may omit fields.  One film is judged, the first card when no film
\* has been judged.
InitLoading == Init /\ ~useExtended /\ storedRatings = NoStore

LoadOutcomes == {"ok", "sparse", "sparseFallback"}

NextLoading ==
    \/ initStart
    \/ /\ Len(inFlight) < MaxInFlight /\ batchNumber + Len(inFlight) <= MaxBatchNumber
       /\ refreshSeedFilesStart
    \/ /\ Len(inFlight) < MaxInFlight /\ batchNumber + Len(inFlight) <= MaxBatchNumber
       /\ toggleDatasetStart
    \/ \E i \in 1..Len(inFlight), outcome \in LoadOutcomes :
          loadAllSeedFilesDone(i, outcome, 5)
    \/ \E qid \in FirstCard, input \in {[ note |-> "", tags |-> <<>> ]} :
          ratings = EmptyRatings /\ rateFilm(qid, "like", input, TRUE)

SpecLoading == InitLoading /\ [][NextLoading]_vars

\* The first card of the rating grid whose film has no judgment
FirstUnjudgedCard ==
    IF ratingHidden THEN {}
    ELSE { currentBatch[k].qid : k \in { k \in 1..Len(currentBatch) :
               /\ ~HasRating(ratings, currentBatch[k].qid)
               /\ \A j \in 1..(k - 1) : HasRating(ratings, currentBatch[j].qid) } }

\* A visitor who judges every card of the batch, one after the other, and then
\* asks for a new batch; no judgment is removed and no catalog loaded again.
\* The first judgments have any verdict, the later ones are neutral.
NextConverge ==
    \/ \E outcome \in {"ok", "fallback"}, r \in RandomDraws : init(outcome, r)
    \/ \E qid \in FirstUnjudgedCard,
          rating \in IF Cardinality(DOMAIN ratings) < MaxJudged
                     THEN Verdicts ELSE {"neutral"} :
          rateFilm(qid, rating, [ note |-> "", tags |-> <<>> ], TRUE)
    \/ \E r \in RandomDraws :
          /\ FirstUnjudgedCard = {} /\ last.batch # "exhausted"
          /\ LoadNewBatch(r) /\ batchNumber' <= MaxDrawn

\* Some step of NextConverge can be taken: the page has yet to start, a card
\* of the batch has no judgment, or the last request for a batch has drawn one
CanAdvance ==
    \/ pc = "boot"
    \/ /\ pc = "ready"
       /\ \/ FirstUnjudgedCard # {}
          \/ last.batch # "exhausted" /\ batchNumber < MaxDrawn

\* The visitor goes on for as long as there is a card to judge or a batch to
\* ask for, and each handler runs to its end once its event is delivered:
\* weak fairness of NextConverge, with the condition under which a step of it
\* can be taken written out as CanAdvance
SpecConverge ==
    /\ Init /\ [][NextConverge]_vars
    /\ []<>(~CanAdvance) \/ []<><<NextConverge>>_vars

\* The catalog of a core file of a hundred films, with ids of their own
EarlierCatalog == [ k \in 1..100 |-> ProcessFilm(RawFilm(100 + k)) ]

\* How many films of that catalog the session has shown
ShownBefore == {80, 81, 85, 86, 92}

\* The films shown before the earlier catalog was loaded: none, or two
\* well-known films, the whole of the catalog the session began with
ShownFirst == { <<>>, <<4, 5>> }

\* The sampler late in a session on the earlier catalog.  Five batches have
\* been drawn and none of their films judged; the visitor went back to the
\* first batch before drawing the last one, so that the history holds these
\* two; recentlyShownQIDs holds the films shown, in the order of their showing.
\* The visitor has then switched to the extended dataset, and its load awaits
\* its fetch.
InitSwitched ==
    /\ allFilms = EarlierCatalog
    /\ films = EarlierCatalog
    /\ ratings = EmptyRatings
    /\ \E n \in ShownBefore, first \in ShownFirst :
          /\ recentlyShownQIDs = first \o [ k \in 1..n |-> 100 + k ]
          /\ currentBatch = SubSeq(EarlierCatalog, n - 15, n)
    /\ batchNumber = 5
    /\ batchHistory = << SubSeq(EarlierCatalog, 1, 16), currentBatch >>
    /\ currentBatchIndex = 1
    /\ yearFilter = "all"
    /\ runtimeFilter = "all"
    /\ storedRatings = NoStore
    /\ useExtended = TRUE
    /\ recGrid = <<>>
    /\ ratingHidden = FALSE
    /\ recsVisible = FALSE
    /\ myRatings = {}
    /\ pc = "ready"
    /\ inFlight = << [ op |-> "toggleDataset", extended |-> TRUE ] >>
    /\ clock = 0
    /\ writeFailures = 0
    /\ last = Ran("toggleDatasetStart", 0, <<>>, "none", "none")

NextRecent ==
    \/ \E r \in RandomDraws \cup {3} : loadAllSeedFilesDone(1, "ok", r)
    \/ \E r \in RandomDraws :
          /\ inFlight = <<>> /\ batchNumber > 5
          /\ LoadNewBatch(r) /\ batchNumber' <= MaxDrawn
    \/ \E r \in RandomDraws :
          inFlight = <<>> /\ batchNumber > 5 /\ clearAllRatings(TRUE, TRUE, r)

SpecRecent == InitSwitched /\ [][NextRecent]_vars

\* A stored map and an import file with a verdict that no button gives
OddVerdictStore ==
    [ present |-> TRUE,
      value   |-> [ q \in {2} |-> [ qid |-> q, rating |-> "love", note |-> "", tags |-> <<>>,
                                    timestamp |-> 0 ] ] ]

OddVerdictFile ==
    [ name |-> "oddVerdict", parses |-> TRUE, hasRatings |-> TRUE,
      entries |-> << ImportEntry(1, "love", "") >> ]

\* The rating store and its export: judgments made on any card, imported and
\* left by an earlier session, on the core catalog
InitStore ==
    /\ films = <<>>
    /\ allFilms = <<>>
    /\ ratings = EmptyRatings
    /\ currentBatch = <<>>
    /\ batchNumber = 0
    /\ batchHistory = <<>>
    /\ currentBatchIndex = -1
    /\ recentlyShownQIDs = <<>>
    /\ yearFilter = "all"
    /\ runtimeFilter = "all"
    /\ storedRatings \in {NoStore, OddVerdictStore}
    /\ useExtended = FALSE
    /\ recGrid = <<>>
    /\ ratingHidden = TRUE
    /\ recsVisible = FALSE
    /\ myRatings = {}
    /\ pc = "boot"
    /\ inFlight = <<>>
    /\ clock = 0
    /\ writeFailures = 0
    /\ last = Ran("none", 0, <<>>, "none", "none")

NextStore ==
    \/ init("ok", 5)
    \/ \E qid \in RateableQids, rating \in Verdicts, input \in NoteTagInputs :
          RoomToJudge(qid) /\ rateFilm(qid, rating, input, TRUE)
    \/ \E file \in OrphanFiles \cup {OddVerdictFile} : importData(file, TRUE)
    \/ exportData

SpecStore == InitStore /\ [][NextStore]_vars

\* A session: every handler that a user can reach, each with one input, on
\* the core catalog.  The history is walked back and forth, and batches are
\* drawn at its end.
AtHistoryEnd == currentBatchIndex = Len(batchHistory) - 1

NextSession ==
    \/ init("ok", 5)
    \/ \E qid \in FirstCard : RoomToJudge(qid) /\ rateFilm(qid, "like", [ note |-> "", tags |-> <<>> ], TRUE)
    \/ \E qid \in FirstListed, confirmed \in BOOLEAN : removeRating(qid, confirmed, TRUE)
    \/ \E confirmed \in BOOLEAN :
          (confirmed => AtHistoryEnd) /\ clearAllRatings(confirmed, TRUE, 5) /\ BatchBounded
    \/ \E file \in OrphanFiles : importData(file, TRUE)
    \/ AtHistoryEnd /\ LoadNewBatch(5) /\ BatchBounded
    \/ nextBatch(5) /\ BatchBounded
    \/ previousBatch
    \/ setYearFilter("last20")
    \/ setRuntimeFilter("short")
    \/ AtHistoryEnd /\ refreshSeedFiles("ok", 5) /\ BatchBounded

SpecSession == InitJudgments /\ [][NextSession]_vars

----------------------------------------------------------------------------
(* The judgment store: C2 - C6, checked under SpecJudgments                *)

\* No film of the catalog in this.films has verdict 'like'
NoCatalogFilmLiked ==
    \A i \in 1..Len(films) :
        ~(HasRating(ratings, films[i].qid) /\ ratings[films[i].qid].rating = "like")

\* C2: whenever no film of the current catalog has verdict 'like', whatever
\* dislikes, neutrals or judgments on films missing from the catalog exist,
\* generateRecommendations() returns the empty list, under every filter setting.
C2_NoLikeNoRecommendations ==
    NoCatalogFilmLiked =>
        \A yf \in YearFilters, rf \in RuntimeFilters :
            generateRecommendations(films, ratings, yf, rf) = <<>>

\* A catalog with unrated films, a disliked film, and a like on a missing film
C2_Witness ==
    /\ pc = "ready"
    /\ NoCatalogFilmLiked
    /\ Len(Unrated(films, ratings)) > 0
    /\ HasRating(ratings, MissingQid) /\ ratings[MissingQid].rating = "like"
    /\ \E i \in 1..Len(films) :
           HasRating(ratings, films[i].qid) /\ ratings[films[i].qid].rating = "dislike"

\* C3: the rating map holds one judgment per film id, stored under that id, and
\* a rateFilm step leaves under the rated id exactly the verdict, note and tags
\* of this call (nothing of an earlier judgment of the id is kept) and leaves
\* every other judgment as it was.
C3_RateFilmReplaces ==
    [][ last'.op = "rateFilm" =>
          LET q == last'.qid
          IN  /\ DOMAIN ratings' = DOMAIN ratings \cup {q}
              /\ \A k \in DOMAIN ratings \ {q} : ratings'[k] = ratings[k]
              /\ \A k \in DOMAIN ratings' : ratings'[k].qid = k
              /\ DOMAIN ratings'[q] = {"qid", "rating", "note", "tags", "timestamp"}
              /\ ratings'[q].rating = last'.arg.rating
              /\ ratings'[q].note = last'.arg.note
              /\ ratings'[q].tags = last'.arg.tags
      ]_vars

\* rateFilm with an empty note and no tag has run on an id that was judged with
\* a note and a tag before (the persisted copy, whose write failed, still shows
\* the earlier judgment), and memory holds the empty note and no tag
C3_Witness ==
    /\ last.op = "rateFilm" /\ last.arg.had /\ last.saved = "failed"
    /\ last.arg.note = "" /\ last.arg.tags = <<>>
    /\ HasRating(storedRatings.value, last.qid)
    /\ storedRatings.value[last.qid].note = "great"
    /\ storedRatings.value[last.qid].tags = <<"emotional">>
    /\ ratings[last.qid].note = "" /\ ratings[last.qid].tags = <<>>

\* C4 as stated: a confirmed removeRating(id) deletes the judgment of id if
\* present and changes nothing in the rating map if absent, and when it follows
\* a rateFilm of the same id immediately, no judgment of id is left in memory
\* nor in the persisted copy.
C4_AsStated ==
    [][ last'.op = "removeRating" /\ last'.arg.confirmed =>
          LET q == last'.qid
          IN  /\ DOMAIN ratings' = DOMAIN ratings \ {q}
              /\ \A k \in DOMAIN ratings' : ratings'[k] = ratings[k]
              /\ last'.arg.justRated =>
                     /\ ~HasRating(ratings', q)
                     /\ ~HasRating(storedRatings'.value, q)
      ]_vars

\* C4, amended: a confirmed removeRating(id) deletes the judgment of id if
\* present and changes nothing in the rating map if absent, and when it follows
\* a rateFilm of the same id immediately, no judgment of id is left in memory,
\* nor in the persisted copy if the write of removeRating succeeds.
C4_RemoveDeletes ==
    [][ last'.op = "removeRating" /\ last'.arg.confirmed =>
          LET q == last'.qid
          IN  /\ DOMAIN ratings' = DOMAIN ratings \ {q}
              /\ \A k \in DOMAIN ratings' : ratings'[k] = ratings[k]
              /\ last'.arg.justRated =>
                     /\ ~HasRating(ratings', q)
                     /\ last'.saved = "ok" =>
                            storedRatings'.present /\ ~HasRating(storedRatings'.value, q)
      ]_vars

\* A confirmed removeRating has run right after the rateFilm of the same id,
\* its write succeeded, and neither memory nor the persisted copy has the id
C4_Witness ==
    /\ last.op = "removeRating" /\ last.arg.confirmed
    /\ last.arg.justRated /\ last.arg.had /\ last.saved = "ok"
    /\ ~HasRating(ratings, last.qid)
    /\ storedRatings.present /\ ~HasRating(storedRatings.value, last.qid)

\* C5: when the write of saveRatings fails, rateFilm and removeRating run to
\* their end (the My Ratings list is rendered again from the new map), the
\* change they made to the rating map stands, every other judgment is still in
\* memory as it was, and the persisted copy is what it was.
C5_FailedWriteKeepsMemory ==
    [][ last'.op \in {"rateFilm", "removeRating"} /\ last'.saved = "failed" =>
          LET q == last'.qid
          IN  /\ IF last'.op = "rateFilm"
                 THEN /\ HasRating(ratings', q)
                      /\ ratings'[q].rating = last'.arg.rating
                      /\ ratings'[q].note = last'.arg.note
                      /\ ratings'[q].tags = last'.arg.tags
                 ELSE ~HasRating(ratings', q)
              /\ \A k \in DOMAIN ratings \ {q} :
                     HasRating(ratings', k) /\ ratings'[k] = ratings[k]
              /\ myRatings' = showMyRatings(allFilms, ratings')
              /\ pc' = "ready"
              /\ storedRatings' = storedRatings
      ]_vars

\* rateFilm has judged a new id while its write failed: memory has the new
\* judgment and an earlier one, the persisted copy has only the earlier one
C5_Witness ==
    /\ last.op = "rateFilm" /\ last.saved = "failed" /\ ~last.arg.had
    /\ HasRating(ratings, last.qid)
    /\ ~HasRating(storedRatings.value, last.qid)
    /\ \E k \in DOMAIN ratings \ {last.qid} :
           HasRating(storedRatings.value, k) /\ storedRatings.value[k] = ratings[k]

\* C6 as stated: after rateFilm, removeRating, clearAllRatings or importData
\* has changed the rating map, and no write failed, the persisted 'oscarRatings'
\* value is the rating map in memory.
C6_AsStated ==
    [][ /\ last'.op \in {"rateFilm", "removeRating", "clearAllRatings", "importData"}
        /\ ratings' # ratings
        /\ last'.saved # "failed"
        => storedRatings' = [ present |-> TRUE, value |-> ratings' ]
      ]_vars

----------------------------------------------------------------------------
(* The sampler: C1, C7 - C10, checked under SpecBatches                    *)
(*                                                                         *)
(* A step whose last'.batch is not "none" is a step of a handler that ran  *)
(* loadNewBatch: on the films in films', the ratings in ratings' and the   *)
(* recentlyShownQIDs of the state before the step.                         *)

\* C1: a film that has a judgment, whatever its verdict, is in no list that
\* generateRecommendations() returns, under any filter setting, and in no batch
\* that loadNewBatch has just sampled.
C1_JudgedNeverOffered ==
    /\ \A yf \in YearFilters, rf \in RuntimeFilters :
           LET recommendations == generateRecommendations(films, ratings, yf, rf)
           IN  \A i \in 1..Len(recommendations) :
                   ~HasRating(ratings, recommendations[i].film.qid)
    /\ last.batch = "sampled" =>
           \A i \in 1..Len(currentBatch) : ~HasRating(ratings, currentBatch[i].qid)

\* loadNewBatch has sampled a batch, and there are recommendations, while a
\* film of the catalog is liked
C1_Witness ==
    /\ last.op = "loadNewBatch" /\ last.batch = "sampled"
    /\ Len(currentBatch) > 0
    /\ ~NoCatalogFilmLiked
    /\ generateRecommendations(films, ratings, yearFilter, runtimeFilter) # <<>>

C10_ExhaustionChangesNothing ==
    [][ /\ last'.op \in {"loadNewBatch", "nextBatch"}
        /\ last'.op = "nextBatch" => currentBatchIndex >= Len(batchHistory) - 1
        /\ Len(Unrated(films, ratings)) = 0
        => /\ last'.batch = "exhausted"
           /\ ratingHidden'
           /\ UNCHANGED <<currentBatch, batchHistory, currentBatchIndex, batchNumber,
                          recentlyShownQIDs, ratings>>
      ]_vars

\* nextBatch at the end of the history has met exhaustion on a loaded catalog,
\* with the batch drawn before still in place
C10_Witness ==
    /\ last.op = "nextBatch" /\ last.batch = "exhausted"
    /\ Len(films) > 0 /\ Len(Unrated(films, ratings)) = 0
    /\ currentBatch # <<>> /\ currentBatchIndex = Len(batchHistory) - 1
    /\ ratingHidden

----------------------------------------------------------------------------
(* The batch history: C11, checked under SpecHistory                       *)

\* C11: a loadNewBatch that samples a batch while currentBatchIndex = i keeps
\* entries 0..i of batchHistory as they were, discards every entry after i,
\* appends the new batch as the last entry, and sets currentBatchIndex to the
\* last index.
C11_HistoryBranches ==
    [][ last'.batch = "sampled" =>
          LET i == currentBatchIndex
          IN  /\ Len(batchHistory') = i + 2
              /\ \A k \in 1..(i + 1) : batchHistory'[k] = batchHistory[k]
              /\ batchHistory'[i + 2] = currentBatch'
              /\ currentBatchIndex' = Len(batchHistory') - 1
      ]_vars

\* The third batch was drawn from index 0 of a history of two: the history
\* has two entries again, the first one as it was and the new batch
C11_Witness ==
    /\ last.op = "loadNewBatch" /\ last.batch = "sampled"
    /\ batchNumber = 3
    /\ Len(batchHistory) = 2 /\ currentBatchIndex = 1
    /\ batchHistory[2] = currentBatch

----------------------------------------------------------------------------
(* Similarity and recommendations: C12 - C17, checked under SpecScoring    *)
(*                                                                         *)
(* A raw pair score x of the code is ScoreScale * x in the model, and the  *)
(* value v that calculateSimilarity returns for n liked films is           *)
(* 110 * ScoreScale * n * v.                                               *)

\* A film with no genres, no cast and no year
Featureless(f) == f.genres = <<>> /\ f.castQIDs = <<>> /\ f.year = 0

SharesDirector(a, b) == Range(a.directorQIDs) \cap Range(b.directorQIDs) # {}

PairScores(f, liked) == [ i \in 1..Len(liked) |-> PairScore(f, liked[i]) ]

\* The largest entry of a non-empty vector
Largest(v) == CHOOSE x \in Range(v) : \A y \in Range(v) : x >= y

C14_ScoresBounded ==
    /\ \A i, j \in 1..Len(films) :
           /\ PairScore(films[i], films[j]) >= 0
           /\ PairScore(films[i], films[j]) <= 11 * ScoreScale
    /\ \A yf \in YearFilters, rf \in RuntimeFilters :
           LET recommendations == generateRecommendations(films, ratings, yf, rf)
               n               == Len(LikedFilms(films, ratings))
           IN  \A k \in 1..Len(recommendations) :
                   /\ recommendations[k].score >= 0
                   /\ recommendations[k].score <= 110 * ScoreScale * n

\* With one film liked, the grid that init filled shows its remake at the
\* normalized score 1, and at score 0 a film made more than 100 years before
\* the liked one
C14_Witness ==
    /\ last.op = "init"
    /\ Len(LikedFilms(films, ratings)) = 1
    /\ \E k \in 1..Len(recGrid) : recGrid[k].score = 110 * ScoreScale
    /\ \E k \in 1..Len(recGrid) :
           LET f     == recGrid[k].film
               liked == LikedFilms(films, ratings)[1]
           IN  /\ f.year # 0 /\ liked.year - f.year > 100
               /\ recGrid[k].score = 0

\* C15: similarity is symmetric: for all catalog films a and b, the score of
\* candidate a against the single liked film b equals the score of candidate
\* b against the single liked film a.
C15_Symmetric ==
    \A i, j \in 1..Len(films) :
        calculateSimilarity(films[i], <<films[j]>>)
            = calculateSimilarity(films[j], <<films[i]>>)

\* With one film liked, the grid that init filled shows a candidate with fewer
\* genres than the liked film, one of them shared, at a positive score, which
\* is the score the liked film gets as a candidate against it
C15_Witness ==
    /\ last.op = "init"
    /\ Len(LikedFilms(films, ratings)) = 1
    /\ \E k \in 1..Len(recGrid) :
           LET f     == recGrid[k].film
               liked == LikedFilms(films, ratings)[1]
           IN  /\ Len(f.genres) < Len(liked.genres)
               /\ Range(f.genres) \cap Range(liked.genres) # {}
               /\ recGrid[k].score > 0
               /\ recGrid[k].score = calculateSimilarity(liked, <<f>>)

\* The place of a film in the catalog
CatalogIndex(fs, f) == CHOOSE i \in 1..Len(fs) : fs[i].qid = f.qid

HeldOrCutOff(recommendations, f, liked) ==
    \/ \E k \in 1..Len(recommendations) : recommendations[k].film = f
    \/ /\ Len(recommendations) = 20
       /\ \A k \in 1..Len(recommendations) :
              recommendations[k].score >= calculateSimilarity(f, liked)

\* C20 as stated: whenever a film of the catalog is liked, every unjudged film
\* of the catalog is in the list that generateRecommendations() returns unless
\* the cut to the top 20 leaves it out, so that the list is empty only when no
\* film is liked or no film is unjudged.
C20_AsStated ==
    LET liked           == LikedFilms(films, ratings)
        unjudged        == Unrated(films, ratings)
        recommendations == generateRecommendations(films, ratings, yearFilter,
                                                   runtimeFilter)
    IN  /\ Len(liked) >= 1 =>
               \A i \in 1..Len(unjudged) :
                   HeldOrCutOff(recommendations, unjudged[i], liked)
        /\ recommendations = <<>> => Len(liked) = 0 \/ Len(unjudged) = 0

\* C20, amended: whenever a film of the catalog is liked, every unjudged film
\* of the catalog that passes the year filter and the runtime filter in force
\* (a film without a year passes the year filter 'all' only, a film without a
\* runtime the runtime filter 'all' only) is scored, also when it has no
\* genres, no cast and no year, and is in the list that
\* generateRecommendations() returns unless the cut to the top 20 leaves it
\* out; the list holds no other film; it is empty exactly when no film is
\* liked or no unjudged film passes the filters.
C20_UnjudgedCompete ==
    \A yf \in YearFilters, rf \in RuntimeFilters :
        LET liked           == LikedFilms(films, ratings)
            unjudged        == Unrated(films, ratings)
            passing         == { f \in Range(unjudged) :
                                   /\ yf = "all" \/
                                          (f.year # 0 /\
                                           f.year >= CurrentYear
                                                      - (IF yf = "last20" THEN 20 ELSE 2))
                                   /\ \/ rf = "all"
                                      \/ rf = "short" /\ f.runtime # 0 /\ f.runtime < 90
                                      \/ rf = "medium" /\ f.runtime >= 90 /\ f.runtime <= 150
                                      \/ rf = "long" /\ f.runtime > 150 }
            recommendations == generateRecommendations(films, ratings, yf, rf)
        IN  /\ Len(liked) >= 1 =>
                   \A f \in passing : HeldOrCutOff(recommendations, f, liked)
            /\ \A k \in 1..Len(recommendations) :
                   /\ recommendations[k].film \in passing
                   /\ recommendations[k].score
                          = calculateSimilarity(recommendations[k].film, liked)
            /\ recommendations = <<>> <=> Len(liked) = 0 \/ passing = {}

\* With two of 22 films liked and the filters back at 'all', the grid shows
\* all 20 unjudged films, the last of them a film with no genres, no cast and
\* no year at score 0
C20_Witness ==
    /\ last.op \in {"setYearFilter", "setRuntimeFilter"}
    /\ yearFilter = "all" /\ runtimeFilter = "all"
    /\ Len(LikedFilms(films, ratings)) = 2
    /\ Len(Unrated(films, ratings)) = 20
    /\ Len(recGrid) = 20
    /\ Featureless(recGrid[20].film) /\ recGrid[20].score = 0
    /\ \E k \in 1..19 : Featureless(recGrid[k].film) /\ recGrid[k].score > 0

----------------------------------------------------------------------------
(* Judging a film again: C18, checked under SpecRejudge                    *)

\* A rateFilm step that repeats the rateFilm call before it: the same film,
\* verdict, note and tags, and no other handler in between (a step that moves
\* the clock is no step of a handler)
RepeatsRateFilm ==
    /\ clock' = clock
    /\ last'.op = "rateFilm" /\ last.op = "rateFilm"
    /\ last'.qid = last.qid
    /\ last'.arg.rating = last.arg.rating
    /\ last'.arg.note = last.arg.note
    /\ last'.arg.tags = last.arg.tags

\* C18 as stated: a rateFilm call with the film id, verdict, note and tags of
\* the rateFilm call before it leaves the rating map as that call left it.
C18_AsStated == [][ RepeatsRateFilm => ratings' = ratings ]_vars

\* C18, amended: a rateFilm call with the film id, verdict, note and tags of
\* the rateFilm call before it leaves the rating map as that call left it
\* except for the timestamp of this judgment, which becomes the time of the
\* second call, and if its write succeeds the persisted copy is that map.
C18_RepeatChangesTimestampOnly ==
    [][ RepeatsRateFilm =>
          LET q == last'.qid
          IN  /\ DOMAIN ratings' = DOMAIN ratings
              /\ \A k \in DOMAIN ratings \ {q} : ratings'[k] = ratings[k]
              /\ ratings'[q] = [ratings[q] EXCEPT !.timestamp = clock]
              /\ last'.saved = "ok" =>
                     storedRatings' = [ present |-> TRUE, value |-> ratings' ]
      ]_vars

\* A judgment was recorded and written at time 0 and recorded again, with the
\* same verdict, note and tags, at time 1, where the write failed: the
\* persisted copy has the first record, memory the same with a later timestamp
C18_Witness ==
    /\ last.op = "rateFilm" /\ last.arg.had /\ last.saved = "failed"
    /\ HasRating(storedRatings.value, last.qid)
    /\ LET first  == storedRatings.value[last.qid]
           second == ratings[last.qid]
       IN  /\ first.rating = second.rating
           /\ first.note = second.note /\ first.tags = second.tags
           /\ first.timestamp = 0 /\ second.timestamp = 1
           /\ second = [first EXCEPT !.timestamp = 1]

----------------------------------------------------------------------------
(* Judgments without a film: C19, checked under SpecOrphans                *)

\* The judged ids that no film of this.films has
Orphans(fs, rs) == { q \in DOMAIN rs : \A i \in 1..Len(fs) : fs[i].qid # q }

\* C19 as stated: a judgment whose id matches no film of the current catalog
\* stays in the rating map when the catalog is loaded again, and loadNewBatch,
\* generateRecommendations and buildExportData give what they would give
\* without that judgment.
C19_AsStated ==
    [][ /\ last'.op \in {"refreshSeedFiles", "toggleDataset"} => ratings' = ratings
        /\ \A q \in Orphans(films', ratings') :
               LET without == DeleteRating(ratings', q)
               IN  /\ \A r \in RandomDraws :
                          loadNewBatch(films', ratings', BatchState', r)
                              = loadNewBatch(films', without, BatchState', r)
                   /\ \A yf \in YearFilters, rf \in RuntimeFilters :
                          generateRecommendations(films', ratings', yf, rf)
                              = generateRecommendations(films', without, yf, rf)
                   /\ buildExportData(films', ratings', useExtended', clock')
                          = buildExportData(films', without, useExtended', clock')
      ]_vars

----------------------------------------------------------------------------
(* What the recommendations read and write: C21, checked under             *)
(* SpecOrphans, and C22, checked under SpecScoring                         *)

\* C21: dislike and neutral judgments bear on generateRecommendations() only
\* by taking the judged film out: under every filter setting the list stays
\* the same when a judgment that is not a like changes between 'dislike' and
\* 'neutral', and when the note, the tags and the timestamp of any judgment
\* change.  (Changes to several judgments are chains of such changes.)
C21_OnlyLikesCount ==
    \A q \in DOMAIN ratings, v \in Verdicts, input \in NoteTagInputs, t \in 0..MaxClock :
        (v = ratings[q].rating \/ {v, ratings[q].rating} = {"dislike", "neutral"}) =>
            LET other == PutRating(ratings, q,
                                   [ qid |-> q, rating |-> v, note |-> input.note,
                                     tags |-> input.tags, timestamp |-> t ])
            IN  \A yf \in YearFilters, rf \in RuntimeFilters :
                    generateRecommendations(films, other, yf, rf)
                        = generateRecommendations(films, ratings, yf, rf)

\* rateFilm has turned the judgment of a film into 'neutral' while another
\* film of the catalog is liked: the grid, filled again, shows recommendations
C21_Witness ==
    /\ last.op = "rateFilm" /\ last.arg.had /\ last.arg.rating = "neutral"
    /\ ratings[last.qid].rating = "neutral"
    /\ Len(LikedFilms(films, ratings)) >= 1
    /\ Len(recGrid) >= 2
    /\ recGrid = generateRecommendations(films, ratings, yearFilter, runtimeFilter)

\* C22: generateRecommendations() is a pure read.  It runs, and no other code
\* that writes these fields does, when a filter is set while the
\* recommendations are on display: such a step leaves films, allFilms,
\* ratings, currentBatch, batchHistory, currentBatchIndex, batchNumber,
\* recentlyShownQIDs and the persisted ratings as they were.
C22_PureRead ==
    [][ last'.op \in {"setYearFilter", "setRuntimeFilter"} /\ recsVisible =>
          UNCHANGED <<films, allFilms, ratings, currentBatch, batchHistory,
                      currentBatchIndex, batchNumber, recentlyShownQIDs,
                      storedRatings>>
      ]_vars

\* The year filter was set to the last 20 years while recommendations were on
\* display: the grid holds the new, shorter list, and the catalog is the
\* dataset as loaded
C22_Witness ==
    /\ last.op = "setYearFilter" /\ yearFilter = "last20" /\ recsVisible
    /\ recGrid = generateRecommendations(films, ratings, yearFilter, runtimeFilter)
    /\ Len(recGrid) >= 2
    /\ Len(recGrid) < Len(generateRecommendations(films, ratings, "all", runtimeFilter))
    /\ films = LoadedFilms(useExtended, "ok") /\ allFilms = films

----------------------------------------------------------------------------
(* The loader: C23, C24 and C25, checked under SpecLoading                 *)

\* The array fields of a film that the model carries (directors and cast, the
\* names beside the ids, are not read by any handler)
ArrayFields == {"genres", "directorQIDs", "castQIDs"}

\* C23, as the claim states it: once a load has completed, by the dataset
\* path or by the seed-films.json fallback, every film of the catalog has its
\* array fields, and calculateSimilarity fails on no two films of the catalog.
C23_AsStated ==
    \A i \in 1..Len(allFilms) :
        /\ ArrayFields \subseteq DOMAIN allFilms[i]
        /\ \A j \in 1..Len(allFilms) : ~SimilarityThrows(allFilms[i], allFilms[j])

\* C24, as the claim states it: a raw record that has neither a qid nor an
\* imdbId to derive one from is dropped, so that no film of the catalog
\* carries the id derived from nothing, and no two films whose ids are
\* derived share one.
C24_AsStated ==
    \A i \in 1..Len(allFilms) :
        /\ allFilms[i].qid # DerivedQid(0)
        /\ \A j \in 1..Len(allFilms) :
               /\ i # j
               /\ allFilms[i].qid = DerivedQid(allFilms[i].imdbId)
               /\ allFilms[j].qid = DerivedQid(allFilms[j].imdbId)
               => allFilms[i].qid # allFilms[j].qid

\* What one loadAllSeedFiles can deliver
CompleteLoads ==
    { LoadedFilms(extended, outcome) :
        extended \in BOOLEAN, outcome \in LoadOutcomes \cup FetchOutcomes }

\* C25: whatever handler runs, and whatever loads are in flight, films and
\* allFilms hold the whole result of one load (or nothing, before the first),
\* and they change only where a load in flight ends, to the whole result of
\* that load.
C25_WholeCatalogs ==
    [][ /\ allFilms' \in CompleteLoads \cup {<<>>}
        /\ films' = applyFilters(allFilms')
        /\ catalogVars' # catalogVars =>
               \E i \in 1..Len(inFlight), outcome \in LoadOutcomes :
                   /\ allFilms' = LoadedFilms(inFlight[i].extended, outcome)
                   /\ Len(inFlight') = Len(inFlight) - 1 ]_vars

\* A refreshSeedFiles ends and draws its batch and its recommendations from
\* the core catalog while a toggleDataset to the extended one is in flight
C25_Witness ==
    /\ last.op = "refreshSeedFiles" /\ last.batch = "sampled"
    /\ inFlight = <<[ op |-> "toggleDataset", extended |-> TRUE ]>>
    /\ films = LoadedFilms(FALSE, "ok") /\ allFilms = films
    /\ Len(LikedFilms(films, ratings)) = 1
    /\ Len(recGrid) = Len(films) - 1
    /\ recGrid = generateRecommendations(films, ratings, yearFilter, runtimeFilter)

----------------------------------------------------------------------------
(* The rating store and its export: C26, C27 and C28, checked under        *)
(* SpecStore                                                               *)

\* C26, as the claim states it: in every state the verdict of every judgment
\* of the rating map is like, dislike or neutral.
C26_AsStated == \A q \in DOMAIN ratings : ratings[q].rating \in Verdicts

\* The stored judgments whose film is in the catalog
Exportable(fs, rs) == { q \in DOMAIN rs : \E i \in 1..Len(fs) : fs[i].qid = rs[q].qid }

C28_AsStated ==
    LET export   == buildExportData(films, ratings, useExtended, clock)
        imported == ImportEntries(EmptyRatings, export.ratings, clock).rs
    IN  /\ Cardinality(DOMAIN imported) = Len(export.ratings)
        /\ \A q \in Exportable(films, ratings) :
               /\ q \in DOMAIN imported
               /\ imported[q].rating = ratings[q].rating
               /\ imported[q].note = ratings[q].note

----------------------------------------------------------------------------
(* What removes a judgment: C29, checked under SpecSession                 *)

\* C29: a step takes an id out of the rating map only if it is a confirmed
\* removeRating, which takes out the id it was given and no other, or a
\* confirmed clearAllRatings, which takes out all; every other handler, and
\* either of the two when the confirmation is declined, leaves every judged
\* id judged.
C29_OnlyRemovalsRemove ==
    [][ LET removed == DOMAIN ratings \ DOMAIN ratings'
        IN  IF last'.op = "removeRating" /\ last'.arg.confirmed
            THEN DOMAIN ratings' = DOMAIN ratings \ {last'.qid}
            ELSE IF last'.op = "clearAllRatings" /\ last'.arg
            THEN DOMAIN ratings' = {}
            ELSE removed = {} ]_vars

\* A confirmed removeRating has taken one of three judgments out
C29_Witness ==
    /\ last.op = "removeRating" /\ last.arg.confirmed /\ last.arg.had
    /\ last.qid \notin DOMAIN ratings
    /\ Cardinality(DOMAIN ratings) = 2

----------------------------------------------------------------------------
(* The size of recentlyShownQIDs: C30, checked under SpecRecent            *)

\* C30: after a loadNewBatch that has drawn a batch, recentlyShownQIDs has at
\* most 100 ids; it is what it was (or nothing, where loadNewBatch has cleared
\* it) with the ids of the batch added in their order, unless that makes more
\* than 100 ids, and then it is the last 50 of them.
C30_CappedAtHundred ==
    [][ last'.batch = "sampled" =>
          /\ Len(recentlyShownQIDs') <= 100
          /\ \E base \in {recentlyShownQIDs, <<>>} :
                LET fresh == SelectSeq(currentBatch', LAMBDA f : f.qid \notin Range(base))
                    added == base \o [ k \in 1..Len(fresh) |-> fresh[k].qid ]
                IN  recentlyShownQIDs' = IF Len(added) > 100
                                         THEN SubSeq(added, Len(added) - 49, Len(added))
                                         ELSE added ]_vars

\* The batch drawn when the extended catalog arrived has taken
\* recentlyShownQIDs from 100 ids or fewer to more than 100, and 50 are left:
\* the batch's ids last, ids of the earlier catalog before them
C30_Witness ==
    /\ last.op = "toggleDataset" /\ last.batch = "sampled"
    /\ Len(recentlyShownQIDs) = 50
    /\ Len(currentBatch) \in 15..20
    /\ \A k \in 1..Len(currentBatch) :
           recentlyShownQIDs[50 - Len(currentBatch) + k] = currentBatch[k].qid
    /\ \A k \in 1..(50 - Len(currentBatch)) : recentlyShownQIDs[k] > 100
----------------------------------------------------------------------------
(* The batch and recentlyShownQIDs: C31, checked under SpecRecent          *)

\* C31: when loadNewBatch has drawn a batch, the id of every film of the batch
\* is in recentlyShownQIDs, in whichever handler loadNewBatch ran.
C31_AsStated ==
    [][ last'.batch = "sampled" =>
          \A k \in 1..Len(currentBatch') :
              currentBatch'[k].qid \in Range(recentlyShownQIDs') ]_vars
----------------------------------------------------------------------------
(* History navigation: C32, checked under SpecHistory                      *)

\* What history navigation leaves alone
NavigationFrame == <<batchHistory, recentlyShownQIDs, batchNumber, ratings>>

\* previousBatch at index 0 or with no history changes nothing; above index 0
\* it moves one step back and shows the stored batch
PreviousBatchStep ==
    last'.op = "previousBatch" =>
        /\ UNCHANGED NavigationFrame
        /\ IF currentBatchIndex > 0
           THEN /\ currentBatchIndex' = currentBatchIndex - 1
                /\ currentBatch' = batchHistory[currentBatchIndex' + 1]
           ELSE UNCHANGED <<currentBatchIndex, currentBatch>>

\* nextBatch with forward history moves one step forward and shows the stored
\* batch; only at the end of the history does it draw a batch
NextBatchStep ==
    last'.op = "nextBatch" =>
        IF currentBatchIndex < Len(batchHistory) - 1
        THEN /\ UNCHANGED NavigationFrame
             /\ last'.batch = "none"
             /\ currentBatchIndex' = currentBatchIndex + 1
             /\ currentBatch' = batchHistory[currentBatchIndex' + 1]
        ELSE last'.batch \in {"sampled", "exhausted"}

\* C32 as stated: the two steps are as above, and a nextBatch that follows a
\* previousBatch shows the index and the batch that were shown before the
\* previousBatch.
C32_AsStated ==
    [][ /\ PreviousBatchStep
        /\ NextBatchStep
        /\ last.op = "previousBatch" /\ last'.op = "nextBatch" =>
               /\ currentBatchIndex' = last.arg.index
               /\ currentBatch' = last.arg.batch ]_vars

\* C32, amended: the two steps are as above, and a nextBatch that follows a
\* previousBatch pressed at an index above 0 shows the index and the batch that
\* were shown before the previousBatch.
C32_Navigation ==
    [][ /\ PreviousBatchStep
        /\ NextBatchStep
        /\ last.op = "previousBatch" /\ last.arg.index > 0 /\ last'.op = "nextBatch" =>
               /\ currentBatchIndex' = last.arg.index
               /\ currentBatch' = last.arg.batch
               /\ last'.batch = "none" ]_vars

\* nextBatch has gone forward to the last of three stored batches, which a
\* previousBatch had left
C32_Witness ==
    /\ last.op = "nextBatch" /\ last.batch = "none"
    /\ Len(batchHistory) = 3 /\ currentBatchIndex = 2
    /\ currentBatch = batchHistory[3]
----------------------------------------------------------------------------
(* The filters and the rating grid: C33, checked under SpecSession         *)

----------------------------------------------------------------------------
(* The history index and the rating grid: C34, checked under SpecBatches   *)

\* C34: currentBatchIndex is at least -1 and less than the length of
\* batchHistory; it is -1 exactly when batchHistory is empty; and when it is 0
\* or more, currentBatch has the films of batchHistory[currentBatchIndex] in
\* their order.
C34_IndexWithinHistory ==
    /\ -1 <= currentBatchIndex /\ currentBatchIndex < Len(batchHistory)
    /\ currentBatchIndex = -1 <=> batchHistory = <<>>
    /\ currentBatchIndex >= 0 => currentBatch = batchHistory[currentBatchIndex + 1]

\* previousBatch has gone back to the first of two stored batches
C34_Witness ==
    /\ last.op = "previousBatch"
    /\ Len(batchHistory) = 2 /\ currentBatchIndex = 0
    /\ currentBatch = batchHistory[1] /\ currentBatch # batchHistory[2]
----------------------------------------------------------------------------
(* The recommendations after a change of the ratings: C35, checked under   *)
(* SpecSession                                                             *)

\* C35 as stated: after rateFilm, removeRating, clearAllRatings or importData
\* has changed the rating map, the recommendation grid holds what
\* generateRecommendations() returns on the new state, and so no film that has
\* a judgment.
C35_AsStated ==
    [][ /\ last'.op \in {"rateFilm", "removeRating", "clearAllRatings", "importData"}
        /\ ratings' # ratings
        => /\ recGrid' = generateRecommendations(films', ratings',
                                                 yearFilter', runtimeFilter')
           /\ \A k \in 1..Len(recGrid') : ~HasRating(ratings', recGrid'[k].film.qid)
      ]_vars
----------------------------------------------------------------------------
(* A rejected or failed import: C36, checked under SpecJudgments           *)

\* C36 as stated: when importData rejects the file (it does not parse, or it
\* has no ratings array) or an exception ends it, the rating map and the
\* persisted ratings are what they were before the import.
C36_AsStated ==
    [][ /\ last'.op = "importData"
        /\ last'.saved = "threw" \/ last'.arg \in {"unparsable", "noRatings"}
        => /\ ratings' = ratings
           /\ storedRatings' = storedRatings ]_vars
----------------------------------------------------------------------------
(* Overlapping loads and the dataset flag: C37, checked under SpecLoading  *)

\* C37 as stated: when the last of the refreshSeedFiles and toggleDataset
\* calls in flight has ended, films and allFilms hold what a load of the
\* dataset that the persisted flag names delivers.
C37_AsStated ==
    /\ inFlight = <<>>
    /\ last.op \in {"refreshSeedFiles", "toggleDataset"}
    => /\ \E outcome \in LoadOutcomes : allFilms = LoadedFilms(useExtended, outcome)
       /\ films = allFilms
----------------------------------------------------------------------------
(* Judging up to exhaustion: C38, checked under SpecConverge               *)

\* C38: every batch that loadNewBatch draws has at least one film, and none of
\* its films has a judgment; every judgment of a card leaves one unjudged film
\* fewer; so each new batch is asked for with fewer unjudged films than the
\* one before it, and in the end loadNewBatch finds no unjudged film and draws
\* no batch.
C38_ConvergesToExhaustion ==
    /\ [][ /\ last'.batch = "sampled" =>
                  /\ currentBatch' # <<>>
                  /\ \A k \in 1..Len(currentBatch') :
                         ~HasRating(ratings', currentBatch'[k].qid)
           /\ last'.op = "rateFilm" =>
                  Len(Unrated(films', ratings')) < Len(Unrated(films, ratings))
           /\ last'.op = "loadNewBatch" =>
                  /\ Len(Unrated(films', ratings')) = Len(Unrated(films, ratings))
                  /\ \A k \in 1..Len(currentBatch) : HasRating(ratings, currentBatch[k].qid)
         ]_vars
    /\ <>[]( /\ pc = "ready"
             /\ last.op = "loadNewBatch" /\ last.batch = "exhausted"
             /\ Len(Unrated(films, ratings)) = 0 )

\* Every film of the extended catalog has been judged, in two batches or
\* more, and the button has found nothing left to draw
C38_Witness ==
    /\ last.op = "loadNewBatch" /\ last.batch = "exhausted"
    /\ Len(films) = Len(ExtendedFile) /\ Len(Unrated(films, ratings)) = 0
    /\ batchNumber >= 2 /\ ratingHidden
====
